---- MODULE Spec2Model ----
(***************************************************************************)
(* Model of the session orchestrator of the recruitment interview tool:    *)
(* domains/handler.py (start_interview_session, process_response,          *)
(* complete_interview), the turn engine it drives                          *)
(* (domains/recruitment/conversation.py), the report compiler              *)
(* (domains/recruitment/evaluation.py) and the storage tables              *)
(* (domains/recruitment/storage.py).                                       *)
(*                                                                         *)
(* One session is followed.  Calls on it are issued one after the other:   *)
(* pc is the position of the call in flight, "idle" between calls.  Every  *)
(* oracle (LLM) call and every storage call can succeed or raise.          *)
(*                                                                         *)
(* Several specifications share the module.  Spec follows the handler.     *)
(* SpecAgent follows one run of the master-agent graph                     *)
(* (domains/recruitment/master_agent.py) driving the turn engine and the   *)
(* evaluation tools.  SpecSelect applies select_next_question to a session *)
(* and a text of the next-question oracle.  SpecConc and SpecBatch run the *)
(* handler's calls as coroutines of one event loop on the admission        *)
(* semaphore, awaited by the callers themselves or by                      *)
(* run_single_interview.  SpecIds gives out session ids.  SpecSummary and  *)
(* FairSpecSummary follow one run of the summarization graph               *)
(* (domains/recruitment/summary.py).  SpecStage walks the stages of a      *)
(* staged scenario (domains/recruitment/new_scenario_manager.py).          *)
(* SpecStart applies start_interview_session to a loaded scenario table.   *)
(* SpecFlow follows one run of the staged master-agent graph               *)
(* (domains/recruitment/new_master_agent.py), and FairSpecAgent is         *)
(* SpecAgent with every node that is due running.  The variables of the    *)
(* other components stay at their initial values in each of them.          *)
(***************************************************************************)
EXTENDS Integers, Sequences, FiniteSets, TLC

\* ------------------------------------------------------------------ bounds
\* Largest number of questions of a scenario in the scenario table.
MaxQuestions == 2

\* Number of submits the caller issues on the session (enough to complete the
\* longest scenario with a clarification and to submit once more afterwards).
MaxSubmits == MaxQuestions + 2

\* Largest number of storage calls and report-oracle calls that raise in a run.
MaxFaults == 1

\* Largest number of tokens in a text the next-question oracle returns.
MaxTextLen == 4

\* The largest admission limit (CONCURRENCY_LIMIT) and the number of
\* coroutines that can run at a time.
MaxLimit == 2

\* Largest number of transcript units (contents) handed to a summarization run.
MaxContents == 2

\* config_settings.SUMMARIZATION_CHUNK_SIZE: the token budget of one reduce call.
ChunkSize == 1000

\* The recursion_limit summarize_interview_history gives the graph run.
RecursionLimit == 10

\* Token counts llm.get_num_tokens gives the text of a document: two small
\* documents fit one chunk, a small and a middle one fit, two middle ones do
\* not, a large one exceeds the chunk on its own.
TokenCounts == {300, 600, 1100}

\* Response texts a caller submits.
Texts == {"a", ""}

\* Score values an oracle returns on each axis.
OracleScores == {8}

\* Summaries run_interview hands back.
Summaries == {"summary"}

\* ------------------------------------------------------------ scenario table
\* Scenario k has the questions 1..k, in this order; id 0 is not loaded.
ScenarioIds == 1..MaxQuestions

NotLoaded == 0

Questions(scenario_id) == [i \in 1..scenario_id |-> i]

\* scenario_manager.get_scenario_by_id: the scenario or None (0).
get_scenario_by_id(scenario_id) ==
    IF scenario_id \in ScenarioIds THEN scenario_id ELSE NotLoaded

\* None for a question.
NoQuestion == 0

\* ------------------------------------------------------------------ helpers
Range(s) == {s[i] : i \in 1..Len(s)}

\* [resp["question_id"] for resp in responses]
QuestionIds(responses) == [i \in 1..Len(responses) |-> responses[i].question_id]

\* The first element of seq that is not in the set asked, NoQuestion if none.
FirstNotIn(seq, asked) ==
    IF \E i \in 1..Len(seq) : seq[i] \notin asked
    THEN seq[CHOOSE i \in 1..Len(seq) :
                /\ seq[i] \notin asked
                /\ \A j \in 1..(i - 1) : seq[j] \in asked]
    ELSE NoQuestion

\* The elements of seq that are not in the set asked, in the order of seq.
RECURSIVE NotAsked(_, _)
NotAsked(seq, asked) ==
    IF seq = <<>> THEN <<>>
    ELSE IF Head(seq) \in asked THEN NotAsked(Tail(seq), asked)
    ELSE <<Head(seq)>> \o NotAsked(Tail(seq), asked)

\* Messages of a conversation history.
Msg(role, kind, q, text) == [role |-> role, kind |-> kind, q |-> q, text |-> text]

HandlerSystemMsg == Msg("system", "hr_interviewer", NoQuestion, "")

QuestionMsg(q) == Msg("assistant", "question", q, "")

HumanMsg(text) == Msg("user", "response", NoQuestion, text)

ClarificationMsg == Msg("assistant", "clarification_question", NoQuestion, "")

ClosingMsg == Msg("assistant", "closing", NoQuestion, "")

\* Axes of the turn engine's ResponseAnalysis and of the report's
\* DetailedEvaluation.
AnalysisAxes == {"relevance", "completeness", "clarity", "technical_accuracy",
                 "professional_tone"}

FallbackScore == 5

\* The default analysis the turn engine records when the analysis oracle fails.
FallbackAnalysis == [a \in AnalysisAxes |-> FallbackScore]

\* ------------------------------------------------------------- oracle results
\* An oracle call that raised (LLM error, unparsable output).
Fail == -1

\* An oracle call with a text result that raised.
Raised == "raise"

\* An identifier that names no question of the scenario.
UnlistedId == 0

\* Results of the clarification oracle: a clarification question is needed,
\* none is needed, or the call raised.
ClarificationOutcomes == {"needs_clarification", "no_clarification", Raised}

\* Results of the response-analysis oracle: the score it gives, or Fail.
AnalysisOutcomes == OracleScores \cup {Fail}

\* Results of the next-question oracle for a scenario with n questions: the
\* identifier it names (after the clean-up of its text), or Fail.
SelectionOutcomes(n) == (UnlistedId..n) \cup {Fail}

\* The text of the identifier of question k.
IdText(k) == ToString(k)

\* A text of the next-question oracle is a sequence of tokens: the label
\* "ID:", a blank, a comma, the identifier of a question, or another word.
Tokens(n) == {"ID:", " ", ",", "word"} \cup {IdText(k) : k \in 1..n}

OracleTexts(n) == UNION {[1..len -> Tokens(n)] : len \in 0..MaxTextLen}

\* str.strip(): blanks are removed from both ends.
RECURSIVE strip(_)
strip(text) ==
    IF text = <<>> THEN <<>>
    ELSE IF Head(text) = " " THEN strip(Tail(text))
    ELSE IF text[Len(text)] = " " THEN strip(SubSeq(text, 1, Len(text) - 1))
    ELSE text

\* Only an "ID: " at the start of the text is removed.
replace_leading_id_label(text) ==
    IF Len(text) >= 2 /\ text[1] = "ID:" /\ text[2] = " "
    THEN SubSeq(text, 3, Len(text))
    ELSE text

\* str.replace("ID: ", ""): every occurrence of "ID: ", found from left to
\* right in the text, is removed.
RECURSIVE replace_id_label(_)
replace_id_label(text) ==
    IF text = <<>> THEN <<>>
    ELSE IF Len(text) >= 2 /\ text[1] = "ID:" /\ text[2] = " "
    THEN replace_id_label(SubSeq(text, 3, Len(text)))
    ELSE <<Head(text)>> \o replace_id_label(Tail(text))

\* str.split(",")[0]: the text before the first comma.
RECURSIVE before_comma(_)
before_comma(text) ==
    IF text = <<>> THEN <<>>
    ELSE IF Head(text) = "," THEN <<>>
    ELSE <<Head(text)>> \o before_comma(Tail(text))

\* The clean-up of the oracle's text:
\* next_question_id.strip().replace("ID: ", "").split(",")[0].strip()
clean_up(text) == strip(before_comma(replace_id_label(strip(text))))

\* The question whose identifier the cleaned-up text is, UnlistedId if it is
\* the identifier of no question of the scenario.
SelectedId(text, n) ==
    IF \E k \in 1..n : clean_up(text) = <<IdText(k)>>
    THEN CHOOSE k \in 1..n : clean_up(text) = <<IdText(k)>>
    ELSE UnlistedId

\* ---------------------------------------------------------------- turn engine
\* select_next_question falling back to the last available question when the
\* oracle call raises.
select_next_question_or_last(questions, questions_asked, sel) ==
    LET available_questions == NotAsked(questions, Range(questions_asked))
    IN  IF available_questions = <<>> THEN NoQuestion
        ELSE IF Len(available_questions) = 1 THEN available_questions[1]
        ELSE IF sel = Fail THEN available_questions[Len(available_questions)]
        ELSE IF sel \in Range(available_questions) THEN sel
        ELSE available_questions[1]

\* select_next_question with the except block of process_response in place of
\* its own: an oracle call that raises selects no question.
select_next_question_or_none(questions, questions_asked, sel) ==
    LET available_questions == NotAsked(questions, Range(questions_asked))
    IN  IF available_questions = <<>> THEN NoQuestion
        ELSE IF Len(available_questions) = 1 THEN available_questions[1]
        ELSE IF sel = Fail THEN NoQuestion
        ELSE IF sel \in Range(available_questions) THEN sel
        ELSE available_questions[1]

\* conversation.select_next_question: the next question, NoQuestion for None.
\* sel is the result of the next-question oracle, consulted only when more
\* than one question is available.
select_next_question(questions, questions_asked, sel) ==
    LET available_questions == NotAsked(questions, Range(questions_asked))
    IN  IF available_questions = <<>> THEN NoQuestion
        ELSE IF Len(available_questions) = 1 THEN available_questions[1]
        ELSE IF sel = Fail THEN available_questions[1]
        ELSE IF sel \in Range(available_questions) THEN sel
        ELSE available_questions[1]

\* The completion check with > in place of >=.
AllAskedStrictly(questions_asked_count, total_questions_count) ==
    questions_asked_count > total_questions_count

\* The completion check of the turn engine and of the handler.
AllAsked(questions_asked_count, total_questions_count) ==
    questions_asked_count >= total_questions_count

\* A session object of the turn engine.
Session(current_question, questions_asked, conversation_history) ==
    [current_question       |-> current_question,
     questions_asked        |-> questions_asked,
     conversation_history   |-> conversation_history,
     evaluation             |-> <<>>,
     awaiting_clarification |-> FALSE,
     interview_complete     |-> FALSE]

NoSession == Session(NoQuestion, <<>>, <<>>)

\* conversation.start_interview on a scenario with these questions.
start_interview(questions) ==
    Session(questions[1], <<questions[1]>>,
            <<Msg("system", "SYSTEM_PROMPT", NoQuestion, ""), Msg("assistant", "begin_question", questions[1], "")>>)

\* The analysis entry the turn engine stores for a response.
AnalysisEntry(response, ana) ==
    [response |-> response,
     analysis |-> IF ana = Fail THEN FallbackAnalysis
                  ELSE [a \in AnalysisAxes |-> ana]]

\* The clarification branch is also taken when the clarification oracle raises.
ClarificationRequestedOrRaised(clar) == clar # "no_clarification"

\* The test of the clarification branch: the oracle returned a result with
\* needs_clarification set.  A call that raised is logged and the turn goes on.
ClarificationRequested(clar) == clar = "needs_clarification"

\* The analysis step without the except block that stores the default analysis.
RecordAnalysisUnlessFailed(session, response, ana) ==
    [session EXCEPT
       !.awaiting_clarification = FALSE,
       !.evaluation = IF ana = Fail THEN @
                      ELSE (session.current_question :> AnalysisEntry(response, ana)) @@ @]

\* The analysis step: awaiting_clarification is cleared and the analysis of
\* the response, or the default analysis, is stored under the current question.
RecordAnalysis(session, response, ana) ==
    [session EXCEPT
       !.awaiting_clarification = FALSE,
       !.evaluation = (session.current_question :> AnalysisEntry(response, ana)) @@ @]

\* The next-question oracle is called: the response is analysed, the
\* completion check fails and more than one question is available.
SelectionOracleCalled(session, questions, clar) ==
    /\ ~ClarificationRequested(clar)
    /\ ~AllAsked(Len(session.questions_asked), Len(questions))
    /\ Len(NotAsked(questions, Range(session.questions_asked))) > 1

\* The next-question oracle is called and raises.
SelectionOracleRaised(session, questions, clar, sel) ==
    SelectionOracleCalled(session, questions, clar) /\ sel = Fail

\* conversation.process_response: the session it returns, for the results
\* clar, ana and sel of the three oracles.
conversation_process_response(session, questions, response, clar, ana, sel) ==
    LET s1 == [session EXCEPT
                 !.conversation_history = Append(@, HumanMsg(response))]
        s2 == RecordAnalysis(s1, response, ana)
        next_question == select_next_question(questions, s2.questions_asked, sel)
    IN  IF ClarificationRequested(clar)
        THEN [s1 EXCEPT
                !.conversation_history = Append(@, ClarificationMsg),
                !.awaiting_clarification = TRUE]
        ELSE IF AllAsked(Len(s2.questions_asked), Len(questions))
        THEN [s2 EXCEPT
                !.interview_complete = TRUE,
                !.conversation_history = Append(@, ClosingMsg)]
        ELSE IF next_question # NoQuestion
        THEN [s2 EXCEPT
                !.current_question = next_question,
                !.questions_asked = Append(@, next_question),
                !.conversation_history = Append(@, QuestionMsg(next_question))]
        ELSE [s2 EXCEPT
                !.interview_complete = TRUE,
                !.conversation_history = Append(@, ClosingMsg)]

\* --------------------------------------------------------------- the handler
\* The history process_response rebuilds from the stored responses.
RECURSIVE QAPairs(_)
QAPairs(responses) ==
    IF responses = <<>> THEN <<>>
    ELSE <<QuestionMsg(Head(responses).question_id),
           HumanMsg(Head(responses).response_text)>> \o QAPairs(Tail(responses))

ReconstructHistory(responses) == <<HandlerSystemMsg>> \o QAPairs(responses)

\* The current question worked out without the loop over the stored responses.
CurrentQuestionFirst(questions, responses) == questions[1]

\* The current question process_response works out from the stored responses.
CurrentQuestion(questions, responses) ==
    IF responses = <<>> THEN questions[1]
    ELSE FirstNotIn(questions, Range(QuestionIds(responses)))

\* A row of the responses table.
ResponseRow(question_id, response_text) ==
    [question_id |-> question_id, response_text |-> response_text]

\* response_dict of complete_interview: for every question id of the
\* responses, the text of the last response stored under it.
ResponseDict(responses) ==
    [q \in Range(QuestionIds(responses)) |->
        responses[CHOOSE i \in 1..Len(responses) :
                     /\ responses[i].question_id = q
                     /\ \A j \in (i + 1)..Len(responses) :
                            responses[j].question_id # q].response_text]

\* The keys of response_dict in insertion order (first occurrence).
RECURSIVE DictKeys(_, _)
DictKeys(responses, seen) ==
    IF responses = <<>> THEN <<>>
    ELSE IF Head(responses).question_id \in seen
         THEN DictKeys(Tail(responses), seen)
    ELSE <<Head(responses).question_id>>
         \o DictKeys(Tail(responses), seen \cup {Head(responses).question_id})

\* Results returned to the caller.
Result(kind, error, question, awaiting, history, rep) ==
    [kind                   |-> kind,
     error                  |-> error,
     current_question       |-> question,
     awaiting_clarification |-> awaiting,
     conversation_history   |-> history,
     report                 |-> rep]

NoResult == Result("none", "", NoQuestion, FALSE, <<>>, <<>>)

ErrorResult(error) == Result("error", error, NoQuestion, FALSE, <<>>, <<>>)

SessionInfo(session) ==
    Result("info", "", session.current_question, session.awaiting_clarification,
           session.conversation_history, <<>>)

\* The message of the error result of complete_interview's except block, for
\* the call that raised.
FailedToComplete(e) ==
    CASE e = "update_session_status" -> "Failed to complete interview: update_session_status"
      [] e = "evaluate_response"     -> "Failed to complete interview: evaluate_response"
      [] e = "evaluate_interview"    -> "Failed to complete interview: evaluate_interview"
      [] e = "store_evaluation"      -> "Failed to complete interview: store_evaluation"
      [] e = "store_report"          -> "Failed to complete interview: store_report"
      [] e = "export_report"         -> "Failed to complete interview: export_report"

CompletionError(e) == ErrorResult(FailedToComplete(e))

CompletedResult(rep) == Result("completed", "", NoQuestion, FALSE, <<>>, <<rep>>)

\* A report of generate_evaluation_report for the scenario: the evaluation of
\* every key of response_dict, the overall evaluation and the summary.
Report(scenario, response_dict, scores, recommendation, summary) ==
    [scenario             |-> scenario,
     final_summary        |-> summary,
     detailed_evaluations |->
        [q \in DOMAIN response_dict |-> [a \in (AnalysisAxes \cup {"grammar", "vocabulary"}) |-> scores[q]]],
     overall_evaluation   |-> [hiring_recommendation |-> recommendation]]

\* Rows of the evaluations table.
DetailedRow(question_id, evaluation) ==
    [evaluation_type |-> "detailed", question_id |-> question_id,
     evaluation |-> evaluation]

OverallRow(overall) ==
    [evaluation_type |-> "overall", question_id |-> NoQuestion,
     evaluation |-> overall]

\* --------------------------------------------------------------------- state
VARIABLES
    status,            \* sessions table: status of the session's row, "none" before it exists
    scenario_id,       \* sessions table: scenario_id of the session's row
    responsesTbl,      \* responses table: rows of the session, in timestamp order
    evaluationsTbl,    \* evaluations table: rows of the session
    reportsTbl,        \* reports table: rows of the session
    exportsDir,        \* report files written to the exports directory
    pc,                \* position of the call in flight, "idle" between calls
    response,          \* process_response: the response submitted
    current_question,  \* process_response: the current question it worked out
    responses,         \* process_response / complete_interview: the responses list
    session,           \* process_response: the turn-engine session object
    final_summary,     \* complete_interview: summary returned by run_interview
    report,            \* complete_interview: << >> or <<the report>>
    evalIdx,           \* complete_interview: position in the store-evaluations loop
    exception,         \* complete_interview: the exception its except block caught, "" if none
    result,            \* the result returned by the last finished call
    submits,           \* history: submits issued on the session
    clarifications,    \* history: results returned with awaiting_clarification
    completionRuns,    \* history: times run_interview was invoked by completion
    completedAt,       \* history: number of the submit that first returned completed, 0 if none
    faults,            \* history: storage calls and report-oracle calls that raised
    otherFaults,       \* history: one of them was not a call of evaluate_response
    analysisSucceeded, \* history: some call of the response-analysis oracle succeeded
    engineOracleRaised,\* history: some oracle call of the turn engine raised
    submitted,         \* history: question shown and text of every submit that returned no error
    evaluatedResponses,\* history: the response dictionary of the latest report generated
    call               \* history: the last call issued and its argument

tables == <<status, scenario_id, responsesTbl, evaluationsTbl, reportsTbl, exportsDir>>

locals == <<response, current_question, responses, session, final_summary, report, evalIdx>>

ghosts == <<submits, clarifications, completionRuns, completedAt, faults, otherFaults,
            analysisSucceeded, engineOracleRaised, submitted, evaluatedResponses,
            call>>

handlerVars == <<tables, pc, locals, exception, result, ghosts>>

\* The files export_session_data wrote.
VARIABLES
    exported    \* the data of the last two files written since the last submit

\* The master-agent graph of master_agent.py driving the turn engine.
VARIABLES
    agent_node,               \* the node the graph is at, "none" before a run
    agent_scenario,           \* state["scenario"]
    agent_session,            \* current_question, questions_asked, conversation_history,
                              \* evaluation, awaiting_clarification, interview_complete
    agent_candidate_response, \* state["candidate_response"]
    agent_state,              \* final_summary, grammar_evaluation, validation_result,
                              \* error, final_report
    agent_oracles,            \* history: results of the oracles in the last engine call
    agent_tools,              \* history: results of the tools in run_evaluation_tools
    agent_provided            \* history: candidate responses handed to the graph

agentVars == <<agent_node, agent_scenario, agent_session, agent_candidate_response,
               agent_state, agent_oracles, agent_tools, agent_provided>>

\* One call of conversation.select_next_question on the text of the oracle.
VARIABLES
    sel_scenario,         \* the scenario of the session
    sel_questions_asked,  \* session["questions_asked"]
    sel_raised,           \* the next-question oracle raises
    sel_text,             \* the text the next-question oracle returns
    sel_result,           \* the question returned, NoQuestion for None
    sel_done              \* the call has returned

selectVars == <<sel_scenario, sel_questions_asked, sel_raised, sel_text, sel_result,
                sel_done>>

\* The calls of the handler running as coroutines of one event loop, all
\* guarded by the module's semaphore.
VARIABLES
    CONCURRENCY_LIMIT,    \* config_settings.CONCURRENCY_LIMIT
    interview_semaphore,  \* the permits the semaphore has left
    tasks,                \* the callers' coroutines: call, position, locals
    sessions,             \* the rows of every session, by session id
    calls                 \* history: calls issued by the callers

concVars == <<CONCURRENCY_LIMIT, interview_semaphore, tasks, sessions, calls>>

\* The session ids given out by storage.create_session and by the staged
\* master agent's initialize_conversation.
VARIABLES
    now,          \* datetime.now(), in whole seconds
    uuids,        \* the number of values uuid.uuid4() has returned
    session_ids   \* the ids of the sessions created, in the order of creation

idVars == <<now, uuids, session_ids>>

\* One run of the summarization graph (domains/recruitment/summary.py).
VARIABLES
    sum_node,                 \* the node that runs next, "END" or "error"
    sum_contents,             \* OverallState.contents
    sum_summaries,            \* OverallState.summaries
    sum_collapsed_summaries,  \* OverallState.collapsed_summaries
    sum_docs_text,            \* the documents generate_final_summary joins
    sum_final_summary,        \* OverallState.final_summary
    sum_steps,                \* super-steps the run has taken
    sum_error                 \* the exception the run raised

sumVars == <<sum_node, sum_contents, sum_summaries, sum_collapsed_summaries,
             sum_docs_text, sum_final_summary, sum_steps, sum_error>>

\* The scenario tables of the staged scenario manager and a caller of
\* get_next_conversation_stage.
VARIABLES
    stage_scenarios,      \* _scenarios: the traditional scenarios
    stage_new_scenarios,  \* _new_scenarios: the staged scenarios
    stage_scenario_id,    \* the scenario_id the caller passes
    stage_current_stage,  \* current_stage of the last call (<<>> for None)
    stage_result,         \* what the last call returned (<<>> for None)
    stage_visited,        \* history: the stages the walk was given, in order
    stage_phase           \* the walk: "start", "walking" or "done"

stageVars == <<stage_scenarios, stage_new_scenarios, stage_scenario_id,
               stage_current_stage, stage_result, stage_visited, stage_phase>>

\* handler.start_interview_session on a loaded scenario table.
VARIABLES
    start_scenarios,  \* scenario_manager._scenarios: the scenarios loaded, each
                      \* with its id and the number of its questions
    start_sessions,   \* the scenarios a session row was created for
    start_handed,     \* the scenarios handed to conversation.start_interview
    start_result      \* << >>, or what the last call returned or raised

startVars == <<start_scenarios, start_sessions, start_handed, start_result>>

\* One run of the staged master-agent graph (new_master_agent.py).
VARIABLES
    flow_node,      \* the node that runs next, "END", or "error"
    flow_state,     \* the MasterAgentState of the run
    flow_provided,  \* customer responses the caller handed to the graph
    flow_consumed,  \* customer messages process_response appended
    flow_advances   \* runs of advance_conversation on a staged scenario that
                    \* changed current_stage or completed the conversation

flowVars == <<flow_node, flow_state, flow_provided, flow_consumed, flow_advances>>

\* The variables of the other components.
besidesSession == <<agentVars, selectVars, concVars, idVars, sumVars, stageVars, startVars, flowVars>>

vars == <<handlerVars, exported, besidesSession>>

\* What the actions of one component leave alone.
besidesHandler == <<exported, besidesSession>>

besidesAgent == <<handlerVars, exported, selectVars, concVars, idVars, sumVars, stageVars, startVars, flowVars>>

besidesSelect == <<handlerVars, exported, agentVars, concVars, idVars, sumVars, stageVars, startVars, flowVars>>

besidesConc == <<handlerVars, exported, agentVars, selectVars, idVars, sumVars, stageVars, startVars, flowVars>>

besidesIds == <<handlerVars, exported, agentVars, selectVars, concVars, sumVars, stageVars, startVars, flowVars>>

besidesSummary == <<handlerVars, exported, agentVars, selectVars, concVars, idVars, stageVars, startVars, flowVars>>

besidesStage == <<handlerVars, exported, agentVars, selectVars, concVars, idVars, sumVars, startVars, flowVars>>

besidesStart == <<handlerVars, exported, agentVars, selectVars, concVars, idVars, sumVars, stageVars, flowVars>>

\* The staged graph reads the tables of the staged scenario manager.
besidesFlow == <<handlerVars, exported, agentVars, selectVars, concVars, idVars, sumVars, stageVars, startVars>>

\* The questions of the session's scenario.
questions == Questions(scenario_id)

\* --------------------------------------------------------- master-agent graph
\* None.
NoneValue == "None"

\* Python truth of an optional string.
Truthy(x) == x \notin {NoneValue, ""}

\* An oracle of the turn engine that the call did not reach.
NotCalled == -2

\* The fields of MasterAgentState that the evaluation steps write.
AgentState(final_summary_, grammar_evaluation, validation_result, error, final_report) ==
    [final_summary      |-> final_summary_,
     grammar_evaluation |-> grammar_evaluation,
     validation_result  |-> validation_result,
     error              |-> error,
     final_report       |-> final_report]

\* The state run_interview and initialize_interview set up.
InitialAgentState == AgentState(NoneValue, NoneValue, NoneValue, NoneValue, NoneValue)

\* run_evaluation_tools with a summarization failure left to the outer except
\* block: the error is recorded and the other tools are not run.
run_evaluation_tools_propagating(state, sum, gram, val) ==
    IF sum = Raised
    THEN [state EXCEPT !.error = "Failed to run evaluation tools"]
    ELSE LET s1 == [state EXCEPT !.final_summary = sum]
             s2 == IF Truthy(s1.final_summary)
                   THEN [s1 EXCEPT !.grammar_evaluation =
                           IF gram = Raised THEN "Error performing grammar check." ELSE gram]
                   ELSE s1
         IN  IF Truthy(s2.final_summary)
             THEN [s2 EXCEPT !.validation_result =
                     IF val = Raised THEN "Error performing validation." ELSE val]
             ELSE s2

\* master_agent.run_evaluation_tools, for the results sum, gram and val of
\* summarization, grammar check and validation.
run_evaluation_tools(state, sum, gram, val) ==
    LET s1 == [state EXCEPT !.final_summary =
                 IF sum = Raised THEN "Error generating summary." ELSE sum]
        s2 == IF Truthy(s1.final_summary)
              THEN [s1 EXCEPT !.grammar_evaluation =
                      IF gram = Raised THEN "Error performing grammar check." ELSE gram]
              ELSE s1
    IN  IF Truthy(s2.final_summary)
        THEN [s2 EXCEPT !.validation_result =
                IF val = Raised THEN "Error performing validation." ELSE val]
        ELSE s2

\* master_agent.route_after_processing.
route_after_processing(state, interview_complete) ==
    IF Truthy(state.error) THEN "error"
    ELSE IF interview_complete THEN "run_evaluation_tools"
    ELSE "process_response"

\* master_agent.route_after_evaluation.
route_after_evaluation(state) ==
    IF Truthy(state.error) THEN "error" ELSE "generate_final_report"

\* The results of the oracles of one engine call, as the history records them.
OracleResults(clar, ana, sel) == [clar |-> clar, ana |-> ana, sel |-> sel]

\* The results of the tools of run_evaluation_tools, as the history records them.
ToolResults(sum, gram, val) == [sum |-> sum, gram |-> gram, val |-> val]

\* No graph is running.
AgentIdle ==
    /\ agent_node = "none"
    /\ agent_scenario = NotLoaded
    /\ agent_session = NoSession
    /\ agent_candidate_response = NoneValue
    /\ agent_state = InitialAgentState
    /\ agent_oracles = OracleResults("none", NotCalled, NotCalled)
    /\ agent_tools = ToolResults("none", "none", "none")
    /\ agent_provided = 0

\* No call of select_next_question is made.
SelectIdle ==
    /\ sel_scenario = NotLoaded
    /\ sel_questions_asked = <<>>
    /\ sel_raised = FALSE
    /\ sel_text = <<>>
    /\ sel_result = NoQuestion
    /\ sel_done = FALSE

\* ------------------------------------------ the handler's calls as coroutines
\* The coroutines that can run at a time.
TaskIds == 1..MaxLimit

\* The calls the callers issue in one run.
MaxCalls == MaxLimit + 1

\* A coroutine: the call it runs (op), its position, the permits it holds,
\* the session id, the response and the locals of the call of
\* process_response it is in, and, in run_single_interview, the result of
\* the call that returned last.
Task(op, pc_, held, session_id, response_, current_question_, responses_, result_) ==
    [op               |-> op,
     pc               |-> pc_,
     held             |-> held,
     session_id       |-> session_id,
     response         |-> response_,
     current_question |-> current_question_,
     responses        |-> responses_,
     result           |-> result_]

\* A coroutine that runs no call: it has not started, or its call has
\* returned and the caller has taken the result.
IdleTask == Task("none", "idle", 0, 0, "", NoQuestion, <<>>, "none")


\* No coroutine runs, every permit is free, no session is stored; a spec of
\* another component keeps this state.
ConcIdle ==
    /\ CONCURRENCY_LIMIT = 1
    /\ interview_semaphore = 1
    /\ tasks = [t \in TaskIds |-> IdleTask]
    /\ sessions = <<>>
    /\ calls = 0

\* ---------------------------------------------------------------- session ids
\* No session has been created; a spec of another component keeps this state.
IdsIdle ==
    /\ now = 0
    /\ uuids = 0
    /\ session_ids = <<>>

\* -------------------------------------------------------------- summarization
\* The text of a document: the transcript units it was written from, in the
\* order the oracle read them, and the number of tokens the model counts in it.
Document(page_content, tokens) == [page_content |-> page_content, tokens |-> tokens]

\* No summarization run has started; a spec of another component keeps this
\* state.
SummaryIdle ==
    /\ sum_node = "none"
    /\ sum_contents = <<>>
    /\ sum_summaries = <<>>
    /\ sum_collapsed_summaries = <<>>
    /\ sum_docs_text = <<>>
    /\ sum_final_summary = <<>>
    /\ sum_steps = 0
    /\ sum_error = ""

\* ------------------------------------------------------------ staged scenarios
\* The stage names of the conversation flows.
StageNames == {"greeting", "needs_assessment", "closing"}

\* A scenario of the staged format, with the stage names of its
\* conversation_flow in the order of declaration.
StagedScenario(id, flow) ==
    [id |-> id,
     fields |-> {"id", "title", "description", "context", "customer_profile",
                 "conversation_flow"},
     conversation_flow |-> flow]

\* A scenario of the traditional format.
TraditionalScenario(id) ==
    [id |-> id,
     fields |-> {"id", "title", "description", "questions"},
     conversation_flow |-> <<>>]

\* No scenario table is loaded for start_interview_session.
StartIdle ==
    /\ start_scenarios = <<>>
    /\ start_sessions = {}
    /\ start_handed = {}
    /\ start_result = <<>>

\* run_conversation's first state: the MasterAgentState it builds before the
\* graph runs.
FlowIdle ==
    /\ flow_node = "initialize_conversation"
    /\ flow_state = [is_new_format      |-> FALSE,
                     scenario_id        |-> "",
                     questions          |-> 0,
                     current_stage      |-> "",
                     stages_completed   |-> <<>>,
                     conversation_history |-> <<>>,
                     customer_response  |-> <<>>,
                     interview_complete |-> FALSE,
                     final_report       |-> <<>>,
                     error              |-> <<>>]
    /\ flow_provided = 0
    /\ flow_consumed = 0
    /\ flow_advances = 0

\* No table is loaded and no call was made; a spec of another component
\* keeps this state.
StageIdle ==
    /\ stage_scenarios = <<>>
    /\ stage_new_scenarios = <<>>
    /\ stage_scenario_id = ""
    /\ stage_current_stage = <<>>
    /\ stage_result = <<>>
    /\ stage_visited = <<>>
    /\ stage_phase = "none"

\* A call of the handler: start_interview_session with its scenario_id, or
\* process_response on a session id that is stored or not.
Call(op, requested, stored) == [op |-> op, scenario_id |-> requested, stored |-> stored]

\* The handler before any call: no session row exists.
HandlerIdle ==
    /\ status = "none"
    /\ scenario_id = NotLoaded
    /\ responsesTbl = <<>>
    /\ evaluationsTbl = <<>>
    /\ reportsTbl = <<>>
    /\ exportsDir = <<>>
    /\ pc = "idle"
    /\ response = ""
    /\ current_question = NoQuestion
    /\ responses = <<>>
    /\ session = NoSession
    /\ final_summary = ""
    /\ report = <<>>
    /\ evalIdx = 0
    /\ exception = ""
    /\ result = NoResult
    /\ submits = 0
    /\ clarifications = 0
    /\ completionRuns = 0
    /\ completedAt = 0
    /\ faults = 0
    /\ otherFaults = FALSE
    /\ analysisSucceeded = FALSE
    /\ engineOracleRaised = FALSE
    /\ submitted = <<>>
    /\ evaluatedResponses = <<>>
    /\ call = Call("none", NotLoaded, FALSE)
    /\ exported = <<>>

Init == HandlerIdle /\ AgentIdle /\ SelectIdle /\ ConcIdle /\ IdsIdle /\ SummaryIdle /\ StageIdle /\ StartIdle /\ FlowIdle

\* A storage call or a report-oracle call can still raise in this run.
CanFail == faults < MaxFaults

\* A storage call, evaluate_interview or an export raises.
Fault == faults' = faults + 1 /\ otherFaults' = TRUE

\* evaluate_response raises.
AnalysisFault == faults' = faults + 1 /\ otherFaults' = otherFaults

\* Nothing raises.
NoFault == UNCHANGED <<faults, otherFaults>>

\* Outcomes of a storage call: TRUE when it succeeds, FALSE when it raises.
StorageOutcomes == IF CanFail THEN {TRUE, FALSE} ELSE {TRUE}

\* The call in flight returns res to its caller.
Return(res) ==
    /\ pc' = "idle"
    /\ result' = res
    /\ response' = ""
    /\ current_question' = NoQuestion
    /\ responses' = <<>>
    /\ session' = NoSession
    /\ final_summary' = ""
    /\ report' = <<>>
    /\ evalIdx' = 0
    /\ exception' = ""
    /\ submitted' = IF pc # "idle" /\ res.kind # "error"
                    THEN Append(submitted, [question_id |-> result.current_question,
                                            response_text |-> response])
                    ELSE submitted
    /\ clarifications' = IF res.awaiting_clarification
                         THEN clarifications + 1 ELSE clarifications
    /\ completedAt' = IF res.kind = "completed" /\ completedAt = 0
                      THEN submits ELSE completedAt

\* start_interview_session creating the session row before it looks the
\* scenario up.
StartInterviewSessionCreatesFirst ==
    /\ pc = "idle"
    /\ status = "none"
    /\ \E requested \in ScenarioIds \cup {NotLoaded}, stored \in StorageOutcomes :
         LET scenario == get_scenario_by_id(requested)
         IN  /\ call' = Call("start_interview_session", requested, FALSE)
             /\ IF ~stored
                THEN /\ Return(ErrorResult("Failed to start interview"))
                     /\ Fault
                     /\ UNCHANGED tables
                ELSE /\ status' = "started"
                     /\ scenario_id' = requested
                     /\ Return(IF scenario = NotLoaded
                               THEN ErrorResult("Scenario not found")
                               ELSE SessionInfo(start_interview(Questions(scenario))))
                     /\ UNCHANGED <<responsesTbl, evaluationsTbl, reportsTbl,
                                    exportsDir, faults, otherFaults>>
    /\ UNCHANGED <<submits, completionRuns, evaluatedResponses, analysisSucceeded, engineOracleRaised>>
    /\ UNCHANGED besidesHandler

\* handler.start_interview_session, on a requested scenario id (a loaded one
\* also stands for the random choice made when no id is given).
StartInterviewSession ==
    /\ pc = "idle"
    /\ status = "none"
    /\ \E requested \in ScenarioIds \cup {NotLoaded}, stored \in StorageOutcomes :
         LET scenario == get_scenario_by_id(requested)
         IN  /\ call' = Call("start_interview_session", requested, FALSE)
             /\ IF scenario = NotLoaded
                THEN /\ Return(ErrorResult("Scenario not found"))
                     /\ UNCHANGED <<tables, faults, otherFaults>>
                ELSE IF ~stored
                THEN \* create_session raised
                     /\ Return(ErrorResult("Failed to start interview"))
                     /\ Fault
                     /\ UNCHANGED tables
                ELSE /\ status' = "started"
                     /\ scenario_id' = scenario
                     /\ Return(SessionInfo(start_interview(Questions(scenario))))
                     /\ UNCHANGED <<responsesTbl, evaluationsTbl, reportsTbl,
                                    exportsDir, faults, otherFaults>>
    /\ UNCHANGED <<submits, completionRuns, evaluatedResponses, analysisSucceeded, engineOracleRaised>>
    /\ UNCHANGED besidesHandler

\* handler.process_response on a session id that has no row.
SubmitUnknownSession ==
    /\ pc = "idle"
    /\ status = "none"
    /\ Return(ErrorResult("Session not found"))
    /\ call' = Call("process_response", NotLoaded, FALSE)
    /\ UNCHANGED <<tables, submits, completionRuns, evaluatedResponses, faults, otherFaults, analysisSucceeded, engineOracleRaised>>
    /\ UNCHANGED besidesHandler

\* handler.process_response, up to the call of the turn engine: reads the
\* session and its responses, rebuilds the history, works out the current
\* question.
Submit ==
    /\ pc = "idle"
    /\ status # "none"
    /\ submits < MaxSubmits
    /\ submits' = submits + 1
    /\ call' = Call("process_response", NotLoaded, TRUE)
    /\ \E text \in Texts, read \in StorageOutcomes :
         LET resps == responsesTbl
             cq    == CurrentQuestion(questions, resps)
         IN  IF ~read
             THEN \* get_session or get_session_responses raised
                  /\ Return(ErrorResult("Failed to process response"))
                  /\ Fault
             ELSE /\ response' = text
                  /\ responses' = resps
                  /\ current_question' = cq
                  /\ NoFault
                  /\ UNCHANGED <<result, final_summary, report, evalIdx,
                                 clarifications, completedAt, submitted, exception>>
                  /\ IF cq = NoQuestion
                     THEN \* all questions have been asked
                          /\ pc' = "update_status"
                          /\ session' = session
                     ELSE /\ pc' = "conversation"
                          /\ session' = Session(cq, QuestionIds(resps),
                                 Append(ReconstructHistory(resps), QuestionMsg(cq)))
    /\ UNCHANGED <<tables, completionRuns, evaluatedResponses, analysisSucceeded, engineOracleRaised>>
    /\ exported' = <<>>
    /\ UNCHANGED besidesSession

\* handler.process_response: the call of conversation.process_response.
Conversation ==
    /\ pc = "conversation"
    /\ \E clar \in ClarificationOutcomes, ana \in AnalysisOutcomes,
          sel \in SelectionOutcomes(Len(questions)) :
         \* the other two oracles are not called when a clarification is asked
         /\ clar = "needs_clarification" => (ana = Fail /\ sel = Fail)
         /\ session' = conversation_process_response(session, questions,
                                                     response, clar, ana, sel)
         /\ analysisSucceeded' = (\/ analysisSucceeded
                                  \/ clar # "needs_clarification" /\ ana # Fail)
         /\ engineOracleRaised' = (\/ engineOracleRaised
                                   \/ clar = Raised
                                   \/ clar # "needs_clarification" /\ ana = Fail
                                   \/ SelectionOracleRaised(session, questions, clar, sel))
    /\ pc' = "store_response"
    /\ UNCHANGED <<tables, response, current_question, responses, final_summary,
                   report, evalIdx, result, submits, clarifications,
                   completionRuns, evaluatedResponses, completedAt, submitted, exception, faults, otherFaults>>
    /\ UNCHANGED <<call, besidesHandler>>

\* handler.process_response: store_response and what follows it.
StoreResponse ==
    /\ pc = "store_response"
    /\ \E stored \in StorageOutcomes :
         IF ~stored
         THEN /\ Return(ErrorResult("Failed to process response"))
              /\ Fault
              /\ UNCHANGED responsesTbl
         ELSE /\ responsesTbl' = Append(responsesTbl,
                                        ResponseRow(current_question, response))
              /\ NoFault
              /\ IF \/ session.interview_complete
                    \/ AllAsked(Len(session.questions_asked), Len(questions))
                 THEN /\ pc' = "update_status"
                      /\ responses' = Append(responses,
                                             ResponseRow(current_question, response))
                      /\ UNCHANGED <<response, current_question, session,
                                     final_summary, report, evalIdx, result,
                                     clarifications, completedAt, submitted, exception>>
                 ELSE Return(SessionInfo(session))
    /\ UNCHANGED <<status, scenario_id, evaluationsTbl, reportsTbl, exportsDir,
                   submits, completionRuns, evaluatedResponses, analysisSucceeded, engineOracleRaised>>
    /\ UNCHANGED <<call, besidesHandler>>

\* ------------------------------------------------------- complete_interview
\* update_session_status(session_id, "completed"), the first statement.
UpdateStatus ==
    /\ pc = "update_status"
    /\ \E stored \in StorageOutcomes :
         IF stored
         THEN /\ status' = "completed"
              /\ pc' = "run_interview"
              /\ exception' = exception
              /\ NoFault
         ELSE /\ status' = status
              /\ pc' = "handle_error"
              /\ exception' = "update_session_status"
              /\ Fault
    /\ UNCHANGED <<scenario_id, responsesTbl, evaluationsTbl, reportsTbl,
                   exportsDir, locals, result, submits, clarifications,
                   completionRuns, evaluatedResponses, completedAt, submitted,
                   analysisSucceeded, engineOracleRaised>>
    /\ UNCHANGED <<call, besidesHandler>>

\* run_interview(candidate_responses): it returns a dictionary in every case,
\* with or without a final_summary.
RunInterview ==
    /\ pc = "run_interview"
    /\ \E summary \in Summaries : final_summary' = summary
    /\ completionRuns' = completionRuns + 1
    /\ pc' = "generate_report"
    /\ UNCHANGED <<tables, response, current_question, responses, session,
                   report, evalIdx, result, submits, clarifications, evaluatedResponses,
                   completedAt, submitted, exception, faults, otherFaults,
                   analysisSucceeded, engineOracleRaised>>
    /\ UNCHANGED <<call, besidesHandler>>

\* generate_evaluation_report: evaluate_response on every entry of
\* response_dict in turn, then evaluate_interview.  evaluated is the number of
\* evaluate_response calls that succeed before one raises.
GenerateReport ==
    /\ pc = "generate_report"
    /\ LET response_dict == ResponseDict(responses)
           keys          == DictKeys(responses, {})
       IN  \E evaluated \in (IF CanFail THEN 0..Len(keys) ELSE {Len(keys)}),
              scores \in [DOMAIN response_dict -> OracleScores],
              overall \in {"Recommend"} \cup (IF CanFail THEN {Raised} ELSE {}) :
             IF evaluated < Len(keys)
             THEN \* evaluate_response raised
                  /\ overall = Raised
                  /\ analysisSucceeded' = (analysisSucceeded \/ evaluated > 0)
                  /\ pc' = "handle_error"
                  /\ exception' = "evaluate_response"
                  /\ AnalysisFault
                  /\ UNCHANGED <<report, evalIdx, evaluatedResponses>>
             ELSE /\ analysisSucceeded' = (analysisSucceeded \/ evaluated > 0)
                  /\ IF overall = Raised
                     THEN \* evaluate_interview raised
                          /\ pc' = "handle_error"
                          /\ exception' = "evaluate_interview"
                          /\ Fault
                          /\ UNCHANGED <<report, evalIdx, evaluatedResponses>>
                     ELSE /\ report' = <<Report(scenario_id, response_dict, scores,
                                                overall, final_summary)>>
                          /\ evaluatedResponses' = response_dict
                          /\ evalIdx' = 1
                          /\ pc' = "store_evaluation"
                          /\ exception' = exception
                          /\ NoFault
    /\ UNCHANGED <<tables, response, current_question, responses, session,
                   final_summary, result, submits, clarifications,
                   completionRuns, completedAt, submitted, engineOracleRaised>>
    /\ UNCHANGED <<call, besidesHandler>>

\* One store_evaluation call: the detailed evaluations in the order of the
\* report's dictionary, then the overall evaluation.
StoreEvaluation ==
    /\ pc = "store_evaluation"
    /\ LET keys == DictKeys(responses, {})
           rep  == report[1]
       IN  \E stored \in StorageOutcomes :
             IF ~stored
             THEN /\ pc' = "handle_error"
                  /\ exception' = "store_evaluation"
                  /\ Fault
                  /\ UNCHANGED <<evaluationsTbl, evalIdx>>
             ELSE /\ NoFault
                  /\ exception' = exception
                  /\ IF evalIdx <= Len(keys)
                     THEN /\ evaluationsTbl' = Append(evaluationsTbl,
                                DetailedRow(keys[evalIdx],
                                            rep.detailed_evaluations[keys[evalIdx]]))
                          /\ evalIdx' = evalIdx + 1
                          /\ pc' = pc
                     ELSE /\ evaluationsTbl' = Append(evaluationsTbl,
                                OverallRow(rep.overall_evaluation))
                          /\ evalIdx' = evalIdx
                          /\ pc' = "store_report"
    /\ UNCHANGED <<status, scenario_id, responsesTbl, reportsTbl, exportsDir,
                   response, current_question, responses, session, final_summary,
                   report, result, submits, clarifications, completionRuns, evaluatedResponses,
                   completedAt, submitted, analysisSucceeded, engineOracleRaised>>
    /\ UNCHANGED <<call, besidesHandler>>

\* store_report(session_id, report).
StoreReport ==
    /\ pc = "store_report"
    /\ \E stored \in StorageOutcomes :
         IF stored
         THEN /\ reportsTbl' = Append(reportsTbl, report[1])
              /\ pc' = "export"
              /\ exception' = exception
              /\ NoFault
         ELSE /\ reportsTbl' = reportsTbl
              /\ pc' = "handle_error"
              /\ exception' = "store_report"
              /\ Fault
    /\ UNCHANGED <<status, scenario_id, responsesTbl, evaluationsTbl, exportsDir,
                   locals, result, submits, clarifications, completionRuns, evaluatedResponses,
                   completedAt, submitted, analysisSucceeded, engineOracleRaised>>
    /\ UNCHANGED <<call, besidesHandler>>

\* The report is written to the exports directory and the completion result
\* is returned.
ExportReport ==
    /\ pc = "export"
    /\ \E written \in StorageOutcomes :
         IF written
         THEN /\ exportsDir' = Append(exportsDir, report[1])
              /\ Return(CompletedResult(report[1]))
              /\ NoFault
         ELSE /\ exportsDir' = exportsDir
              /\ pc' = "handle_error"
              /\ exception' = "export_report"
              /\ Fault
              /\ UNCHANGED <<locals, result, clarifications, completedAt, submitted>>
    /\ UNCHANGED <<status, scenario_id, responsesTbl, evaluationsTbl, reportsTbl,
                   submits, completionRuns, evaluatedResponses, analysisSucceeded, engineOracleRaised>>
    /\ UNCHANGED <<call, besidesHandler>>

\* The except block of complete_interview without its status update.
HandleErrorKeepsStatus ==
    /\ pc = "handle_error"
    /\ status' = status
    /\ NoFault
    /\ Return(CompletionError(exception))
    /\ UNCHANGED <<scenario_id, responsesTbl, evaluationsTbl, reportsTbl,
                   exportsDir, submits, completionRuns, evaluatedResponses,
                   analysisSucceeded, engineOracleRaised>>
    /\ UNCHANGED <<call, besidesHandler>>

\* The except block of complete_interview: update_session_status(session_id,
\* "error"); if that raises too, the except block of process_response returns
\* the error result.
HandleError ==
    /\ pc = "handle_error"
    /\ \E stored \in StorageOutcomes :
         IF stored
         THEN /\ status' = "error"
              /\ NoFault
              /\ Return(CompletionError(exception))
         ELSE /\ status' = status
              /\ Fault
              /\ Return(ErrorResult("Failed to process response"))
    /\ UNCHANGED <<scenario_id, responsesTbl, evaluationsTbl, reportsTbl,
                   exportsDir, submits, completionRuns, evaluatedResponses, analysisSucceeded, engineOracleRaised>>
    /\ UNCHANGED <<call, besidesHandler>>

\* The data of the session with a mark of an export made before.
get_session_data_with_export_mark ==
    [session     |-> [status |-> status, scenario_id |-> scenario_id, marked |-> exported # <<>>],
     responses   |-> responsesTbl,
     evaluations |-> evaluationsTbl,
     report      |-> IF reportsTbl = <<>> THEN <<>>
                     ELSE <<reportsTbl[Len(reportsTbl)]>>]

\* storage.get_complete_session_data: the session row, its responses and
\* evaluations, and the report row stored last.
get_complete_session_data ==
    [session     |-> [status |-> status, scenario_id |-> scenario_id],
     responses   |-> responsesTbl,
     evaluations |-> evaluationsTbl,
     report      |-> IF reportsTbl = <<>> THEN <<>>
                     ELSE <<reportsTbl[Len(reportsTbl)]>>]


\* handler.export_session_data on the completed session, between two calls:
\* the complete data is written to a new file, named by the second; the
\* write can fail, and then the error is returned and no file is written.
ExportSessionData ==
    /\ pc = "idle"
    /\ status = "completed"
    /\ \E written \in StorageOutcomes :
          exported' = IF written
                      THEN IF Len(exported) = 2
                           THEN <<exported[2], get_complete_session_data>>
                           ELSE Append(exported, get_complete_session_data)
                      ELSE exported
    /\ UNCHANGED <<handlerVars, besidesSession>>

Next ==
    \/ ExportSessionData
    \/ StartInterviewSession
    \/ SubmitUnknownSession
    \/ Submit
    \/ Conversation
    \/ StoreResponse
    \/ UpdateStatus
    \/ RunInterview
    \/ GenerateReport
    \/ StoreEvaluation
    \/ StoreReport
    \/ ExportReport
    \/ HandleError

Spec == Init /\ [][Next]_vars

\* --------------------------------------------------- the master-agent graph
\* The questions of the scenario of the graph's run.
agent_questions == Questions(agent_scenario)

\* run_interview has built the state and the graph is at its first node.
InitAgent ==
    /\ HandlerIdle
    /\ SelectIdle
    /\ ConcIdle
    /\ IdsIdle
    /\ SummaryIdle
    /\ StageIdle
    /\ StartIdle
    /\ FlowIdle
    /\ agent_node = "initialize_interview"
    /\ agent_scenario = NotLoaded
    /\ agent_session = NoSession
    /\ agent_candidate_response = NoneValue
    /\ agent_state = InitialAgentState
    /\ agent_oracles = OracleResults("none", NotCalled, NotCalled)
    /\ agent_tools = ToolResults("none", "none", "none")
    /\ agent_provided = 0

\* Node initialize_interview: conversation.start_interview on a scenario of
\* the table; the edge leads to process_response.
agent_initialize_interview ==
    /\ agent_node = "initialize_interview"
    /\ \E scenario \in (1..(MaxQuestions + 1)) :
         /\ agent_scenario' = scenario
         /\ agent_session' = start_interview(Questions(scenario))
    /\ agent_state' = InitialAgentState
    /\ agent_node' = "process_response"
    /\ UNCHANGED <<agent_candidate_response, agent_oracles, agent_tools,
                   agent_provided, besidesAgent>>

\* The caller of the graph hands it the next candidate response when the
\* state has none and the interview is not complete.
agent_provide_response ==
    /\ agent_node = "process_response"
    /\ ~Truthy(agent_candidate_response)
    /\ ~agent_session.interview_complete
    /\ agent_provided < MaxSubmits
    /\ \E text \in Texts : agent_candidate_response' = text
    /\ agent_provided' = agent_provided + 1
    /\ UNCHANGED <<agent_node, agent_scenario, agent_session, agent_state,
                   agent_oracles, agent_tools, besidesAgent>>

\* Node process_response and route_after_processing: without a candidate
\* response the state is returned as it is; otherwise the turn engine
\* processes the response and the state takes over the session it returns.
agent_process_response ==
    /\ agent_node = "process_response"
    /\ IF ~Truthy(agent_candidate_response)
       THEN /\ agent_node' = route_after_processing(agent_state,
                                    agent_session.interview_complete)
            /\ UNCHANGED <<agent_session, agent_candidate_response, agent_oracles>>
       ELSE \E clar \in ClarificationOutcomes, ana \in AnalysisOutcomes,
               sel \in SelectionOutcomes(Len(agent_questions)) :
              LET called == SelectionOracleCalled(agent_session, agent_questions, clar)
              IN  \* an oracle that is not called has no result
                  /\ ClarificationRequested(clar) => ana = Fail
                  /\ ~called => sel = Fail
                  /\ agent_session' = conversation_process_response(
                         agent_session, agent_questions,
                         agent_candidate_response, clar, ana, sel)
                  /\ agent_oracles' = OracleResults(clar,
                         IF ClarificationRequested(clar) THEN NotCalled ELSE ana,
                         IF called THEN sel ELSE NotCalled)
                  /\ agent_candidate_response' = NoneValue
                  /\ agent_node' = route_after_processing(agent_state,
                                       agent_session'.interview_complete)
    /\ UNCHANGED <<agent_scenario, agent_state, agent_tools, agent_provided,
                   besidesAgent>>

\* Node run_evaluation_tools and route_after_evaluation.
agent_run_evaluation_tools ==
    /\ agent_node = "run_evaluation_tools"
    /\ \E sum \in (Summaries \cup {"", NoneValue, Raised}), gram \in {"grammar evaluation", Raised}, val \in {"validation result", Raised} :
         LET reached == sum = Raised \/ Truthy(sum)
         IN  \* a tool that is skipped has no result
             /\ ~reached => (gram = Raised /\ val = Raised)
             /\ agent_state' = run_evaluation_tools(agent_state, sum, gram, val)
             /\ agent_tools' = ToolResults(sum, IF reached THEN gram ELSE "skipped",
                                           IF reached THEN val ELSE "skipped")
             /\ agent_node' = route_after_evaluation(agent_state')
    /\ UNCHANGED <<agent_scenario, agent_session, agent_candidate_response,
                   agent_oracles, agent_provided, besidesAgent>>

\* Node generate_final_report: the report oracle's text is stored, or the
\* error is recorded; the edge leads to END.
agent_generate_final_report ==
    /\ agent_node = "generate_final_report"
    /\ \E generated \in BOOLEAN :
         agent_state' = IF generated
                        THEN [agent_state EXCEPT !.final_report = "final report"]
                        ELSE [agent_state EXCEPT
                                !.error = "Failed to generate final report"]
    /\ agent_node' = "END"
    /\ UNCHANGED <<agent_scenario, agent_session, agent_candidate_response,
                   agent_oracles, agent_tools, agent_provided,
                   besidesAgent>>

NextAgent ==
    \/ agent_initialize_interview
    \/ agent_provide_response
    \/ agent_process_response
    \/ agent_run_evaluation_tools
    \/ agent_generate_final_report

SpecAgent == InitAgent /\ [][NextAgent]_vars

\* The framework keeps running the graph: a node that is due runs.  The
\* caller may have no response left to hand over.
FairSpecAgent ==
    /\ SpecAgent
    /\ WF_vars(agent_initialize_interview)
    /\ WF_vars(agent_process_response)
    /\ WF_vars(agent_run_evaluation_tools)
    /\ WF_vars(agent_generate_final_report)

\* ----------------------------------------------- select_next_question alone
\* The duplicate-free lists of question ids of a scenario with n questions.
AskedLists(n) ==
    {asked \in UNION {[1..m -> 1..n] : m \in 0..n} :
        \A i, j \in 1..Len(asked) : asked[i] = asked[j] => i = j}

\* A session with some of the questions asked, and the behaviour of the
\* next-question oracle on it.
InitSelect ==
    /\ HandlerIdle
    /\ AgentIdle
    /\ ConcIdle
    /\ IdsIdle
    /\ SummaryIdle
    /\ StageIdle
    /\ StartIdle
    /\ FlowIdle
    /\ sel_scenario \in ScenarioIds
    /\ sel_questions_asked \in AskedLists(sel_scenario)
    /\ sel_raised \in BOOLEAN
    /\ sel_text \in (IF sel_raised THEN {<<>>} ELSE OracleTexts(sel_scenario))
    /\ sel_result = NoQuestion
    /\ sel_done = FALSE

\* The call select_next_question(session).
SelectNextQuestion ==
    /\ ~sel_done
    /\ sel_result' = select_next_question(Questions(sel_scenario), sel_questions_asked,
                         IF sel_raised THEN Fail ELSE SelectedId(sel_text, sel_scenario))
    /\ sel_done' = TRUE
    /\ UNCHANGED <<sel_scenario, sel_questions_asked, sel_raised, sel_text,
                   besidesSelect>>

SpecSelect == InitSelect /\ [][SelectNextQuestion]_vars

\* ------------------------------------------- the handler's calls as coroutines
\* asyncio.Semaphore(config_settings.CONCURRENCY_LIMIT), for a limit of the
\* configuration.
InitConc ==
    /\ HandlerIdle
    /\ AgentIdle
    /\ SelectIdle
    /\ IdsIdle
    /\ SummaryIdle
    /\ StageIdle
    /\ StartIdle
    /\ FlowIdle
    /\ CONCURRENCY_LIMIT \in 1..MaxLimit
    /\ interview_semaphore = CONCURRENCY_LIMIT
    /\ tasks = [t \in TaskIds |-> IdleTask]
    /\ sessions = <<>>
    /\ calls = 0

\* The position after the permit is taken.
AfterAcquire(pc_) ==
    CASE pc_ = "acquire_interview" -> "acquire_start"
      [] pc_ = "acquire_start"     -> "start"
      [] pc_ = "acquire_submit"    -> "submit"

\* The coroutine leaves the `async with` block of start_interview_session or
\* process_response without giving its permit back.
ReturnKeepingPermit(task, kind) ==
    IF task.op = "run_single_interview"
    THEN Task(task.op, "running", task.held, task.session_id, "", NoQuestion, <<>>, kind)
    ELSE [IdleTask EXCEPT !.held = task.held]

\* The coroutine leaves the `async with` block of start_interview_session or
\* process_response with the result kind: the permit of the block is given
\* back, and the result goes to the caller, which is run_single_interview or
\* the caller of the handler.
ReturnFrom(task, kind) ==
    IF task.op = "run_single_interview"
    THEN Task(task.op, "running", task.held - 1, task.session_id, "", NoQuestion,
              <<>>, kind)
    ELSE IdleTask

\* The coroutine t leaves the block with the result kind.
Leave(t, task, kind) ==
    LET after == ReturnFrom(task, kind)
    IN  /\ tasks' = [tasks EXCEPT ![t] = after]
        /\ interview_semaphore' = interview_semaphore + (task.held - after.held)

\* A new coroutine takes the first slot that is free.
FirstFree(t) ==
    /\ tasks[t].pc = "idle"
    /\ \A u \in TaskIds : u < t => tasks[u].pc # "idle"

\* A caller awaits start_interview_session(scenario_id).
CallStartInterviewSession(t) ==
    /\ FirstFree(t)
    /\ calls < MaxCalls
    /\ calls' = calls + 1
    /\ tasks' = [tasks EXCEPT ![t] =
                   Task("start_interview_session", "acquire_start", 0, 0, "",
                        NoQuestion, <<>>, "none")]
    /\ UNCHANGED <<CONCURRENCY_LIMIT, interview_semaphore, sessions, besidesConc>>

\* A caller awaits process_response(session_id, response), on the id of a
\* stored session or on an id that is not stored.
CallProcessResponse(t) ==
    /\ FirstFree(t)
    /\ calls < MaxCalls
    /\ calls' = calls + 1
    /\ \E session_id \in 1..(Len(sessions) + 1), text \in Texts :
         tasks' = [tasks EXCEPT ![t] =
                     Task("process_response", "acquire_submit", 0, session_id, text,
                          NoQuestion, <<>>, "none")]
    /\ UNCHANGED <<CONCURRENCY_LIMIT, interview_semaphore, sessions, besidesConc>>

\* run_batch_interviews starts run_single_interview(scenario_id, responses)
\* for an interview of the batch.
CallRunSingleInterview(t) ==
    /\ FirstFree(t)
    /\ calls < MaxLimit
    /\ calls' = calls + 1
    /\ tasks' = [tasks EXCEPT ![t] =
                   Task("run_single_interview", "acquire_interview", 0, 0, "",
                        NoQuestion, <<>>, "none")]
    /\ UNCHANGED <<CONCURRENCY_LIMIT, interview_semaphore, sessions, besidesConc>>

\* `async with interview_semaphore`: a coroutine that waits for a permit
\* takes one when one is free.
Acquire(t) ==
    /\ tasks[t].pc \in {"acquire_interview", "acquire_start", "acquire_submit"}
    /\ interview_semaphore > 0
    /\ interview_semaphore' = interview_semaphore - 1
    /\ tasks' = [tasks EXCEPT ![t].pc = AfterAcquire(@), ![t].held = @ + 1]
    /\ UNCHANGED <<CONCURRENCY_LIMIT, sessions, calls, besidesConc>>

\* The body of start_interview_session, which awaits nothing: the scenario
\* of the requested id is looked up, the session row is created, the result
\* is returned.
TaskStartInterviewSession(t) ==
    /\ tasks[t].pc = "start"
    /\ \E requested \in ScenarioIds \cup {NotLoaded}, stored \in BOOLEAN :
         LET task     == tasks[t]
             scenario == get_scenario_by_id(requested)
         IN  /\ IF scenario = NotLoaded \/ ~stored
                THEN Leave(t, task, "error")
                ELSE Leave(t, [task EXCEPT !.session_id = Len(sessions) + 1], "info")
             /\ sessions' = IF scenario = NotLoaded \/ ~stored
                            THEN sessions
                            ELSE Append(sessions,
                                        [scenario_id |-> scenario,
                                         status      |-> "started",
                                         responses   |-> <<>>])
    /\ UNCHANGED <<CONCURRENCY_LIMIT, calls, besidesConc>>

\* complete_interview is entered with these responses: the status becomes
\* completed and the coroutine awaits run_interview.
EnterCompletion(t, session_id, responses_) ==
    /\ sessions' = [sessions EXCEPT ![session_id].status = "completed"]
    /\ tasks' = [tasks EXCEPT ![t].pc = "complete", ![t].responses = responses_]

\* process_response from its first statement to its first await: the
\* session and its responses are read and the current question is worked
\* out; then the turn engine is awaited, or complete_interview is entered
\* when every question has a response.
TaskProcessResponseRead(t) ==
    /\ tasks[t].pc = "submit"
    /\ \E read \in BOOLEAN :
         LET task == tasks[t]
         IN  IF ~read \/ task.session_id \notin 1..Len(sessions)
             THEN \* a storage call raised, or get_session found no row
                  /\ Leave(t, task, "error")
                  /\ UNCHANGED sessions
             ELSE LET rows == sessions[task.session_id]
                      cq   == CurrentQuestion(Questions(rows.scenario_id), rows.responses)
                  IN  /\ UNCHANGED interview_semaphore
                      /\ IF cq = NoQuestion
                         THEN EnterCompletion(t, task.session_id, rows.responses)
                         ELSE /\ tasks' = [tasks EXCEPT
                                             ![t].pc = "engine",
                                             ![t].current_question = cq,
                                             ![t].responses = rows.responses]
                              /\ UNCHANGED sessions
    /\ UNCHANGED <<CONCURRENCY_LIMIT, calls, besidesConc>>

\* process_response from the return of the turn engine to its next await or
\* to its return: the response is stored under the current question worked
\* out before the await; then complete_interview is entered, or the session
\* information is returned.
TaskProcessResponseStore(t) ==
    /\ tasks[t].pc = "engine"
    /\ \E clar \in ClarificationOutcomes, ana \in AnalysisOutcomes,
          sel \in SelectionOutcomes(MaxQuestions), stored \in BOOLEAN :
         LET task      == tasks[t]
             questions_ == Questions(sessions[task.session_id].scenario_id)
             before    == Session(task.current_question, QuestionIds(task.responses),
                                  Append(ReconstructHistory(task.responses),
                                         QuestionMsg(task.current_question)))
             updated   == conversation_process_response(before, questions_,
                              task.response, clar, ana, sel)
             row       == ResponseRow(task.current_question, task.response)
         IN  /\ clar = "needs_clarification" => (ana = Fail /\ sel = Fail)
             /\ sel \in SelectionOutcomes(Len(questions_))
             /\ IF ~stored
                THEN \* store_response raised
                     /\ Leave(t, task, "error")
                     /\ UNCHANGED sessions
                ELSE IF \/ updated.interview_complete
                        \/ AllAsked(Len(updated.questions_asked), Len(questions_))
                THEN /\ sessions' = [sessions EXCEPT
                                       ![task.session_id].responses = Append(@, row),
                                       ![task.session_id].status = "completed"]
                     /\ tasks' = [tasks EXCEPT
                                    ![t].pc = "complete",
                                    ![t].responses = Append(task.responses, row)]
                     /\ UNCHANGED interview_semaphore
                ELSE /\ sessions' = [sessions EXCEPT
                                       ![task.session_id].responses = Append(@, row)]
                     /\ Leave(t, task, "info")
    /\ UNCHANGED <<CONCURRENCY_LIMIT, calls, besidesConc>>

\* complete_interview from the return of run_interview to its return: the
\* report is generated and stored and the completed result is returned; or
\* a call raises and the except block marks the session and returns an
\* error; or its update_session_status raises as well and the except block
\* of process_response returns the error.
TaskCompleteInterview(t) ==
    /\ tasks[t].pc = "complete"
    /\ \E outcome \in {"completed", "error", "raised"} :
         LET task == tasks[t]
         IN  /\ sessions' =
                   IF outcome = "error"
                   THEN [sessions EXCEPT ![task.session_id].status = "error"]
                   ELSE sessions
             /\ Leave(t, task, IF outcome = "completed" THEN "completed" ELSE "error")
    /\ UNCHANGED <<CONCURRENCY_LIMIT, calls, besidesConc>>

\* run_single_interview between two calls: it returns the error or the
\* completed result of the call that returned, or the incomplete result when
\* its list of responses is used up, giving its own permit back; or it
\* awaits process_response on its next response.
TaskRunSingleInterview(t) ==
    /\ tasks[t].pc = "running"
    /\ \E used_up \in BOOLEAN :
         LET task == tasks[t]
         IN  IF task.result \in {"error", "completed"} \/ used_up
             THEN /\ tasks' = [tasks EXCEPT ![t] = IdleTask]
                  /\ interview_semaphore' = interview_semaphore + task.held
             ELSE /\ \E text \in Texts :
                       tasks' = [tasks EXCEPT ![t].pc = "acquire_submit",
                                              ![t].response = text]
                  /\ UNCHANGED interview_semaphore
    /\ UNCHANGED <<CONCURRENCY_LIMIT, sessions, calls, besidesConc>>

\* Callers that await start_interview_session and process_response
\* themselves, any number of them at a time.
NextConc ==
    \E t \in TaskIds :
        \/ CallStartInterviewSession(t)
        \/ CallProcessResponse(t)
        \/ Acquire(t)
        \/ TaskStartInterviewSession(t)
        \/ TaskProcessResponseRead(t)
        \/ TaskProcessResponseStore(t)
        \/ TaskCompleteInterview(t)

SpecConc == InitConc /\ [][NextConc]_vars

\* run_batch_interviews: the interviews of a batch, gathered on one event
\* loop.
NextBatch ==
    \E t \in TaskIds :
        \/ CallRunSingleInterview(t)
        \/ Acquire(t)
        \/ TaskStartInterviewSession(t)
        \/ TaskProcessResponseRead(t)
        \/ TaskProcessResponseStore(t)
        \/ TaskCompleteInterview(t)
        \/ TaskRunSingleInterview(t)

SpecBatch == InitConc /\ [][NextBatch]_vars

\* ---------------------------------------------------------------- session ids
\* The sessions created in one run, and the seconds the clock can advance.
MaxSessions == MaxLimit + 1

MaxClock == MaxLimit + 1

\* str(uuid.uuid4()): the k-th value drawn, which no earlier call returned.
UuidText(k) == [format |-> "uuid4", value |-> k]

\* f"session_{datetime.now().strftime('%Y%m%d_%H%M%S')}": the text names the
\* second the clock shows and nothing else.
TimestampText(second) == [format |-> "session_%Y%m%d_%H%M%S", value |-> second]

InitIds ==
    /\ HandlerIdle
    /\ AgentIdle
    /\ SelectIdle
    /\ ConcIdle
    /\ IdsIdle
    /\ SummaryIdle
    /\ StageIdle

    /\ StartIdle

    /\ FlowIdle
\* The clock reaches the next second.
Tick ==
    /\ now < MaxClock
    /\ now' = now + 1
    /\ UNCHANGED <<uuids, session_ids, besidesIds>>

\* storage.create_session: the id of the new row is a fresh uuid4.
create_session ==
    /\ Len(session_ids) < MaxSessions
    /\ uuids' = uuids + 1
    /\ session_ids' = Append(session_ids, UuidText(uuids'))
    /\ UNCHANGED <<now, besidesIds>>

\* new_master_agent.initialize_conversation: the id of the new session is
\* the text of the current second.
initialize_conversation ==
    /\ Len(session_ids) < MaxSessions
    /\ session_ids' = Append(session_ids, TimestampText(now))
    /\ UNCHANGED <<now, uuids, besidesIds>>

NextIds == Tick \/ create_session \/ initialize_conversation

SpecIds == InitIds /\ [][NextIds]_vars

\* ----------------------------------------------------- the summarization graph
\* One run of the graph create_summarization_graph compiles, on the input
\* {"contents": contents} and under the recursion limit
\* summarize_interview_history gives it.  Each node is one super-step of the
\* run; the map tasks of generate_summary all belong to the first one.  Every
\* oracle call can raise, and an exception of a node ends the run.

\* The contents are the lines run_evaluation_tools makes of the messages;
\* summarize_interview_history refuses an empty list before the graph runs.
InitSummary ==
    /\ HandlerIdle
    /\ AgentIdle
    /\ SelectIdle
    /\ ConcIdle
    /\ IdsIdle
    /\ StageIdle
    /\ StartIdle
    /\ FlowIdle
    /\ sum_node = "generate_summary"
    /\ sum_contents \in UNION {[1..n -> {"Interviewer: Q1", "Candidate: a"}] :
                                n \in 1..MaxContents}
    /\ sum_summaries = <<>>
    /\ sum_collapsed_summaries = <<>>
    /\ sum_docs_text = <<>>
    /\ sum_final_summary = <<>>
    /\ sum_steps = 0
    /\ sum_error = ""

\* length_function: the tokens of the documents together.
RECURSIVE length_function(_)
length_function(documents) ==
    IF documents = <<>> THEN 0
    ELSE Head(documents).tokens + length_function(Tail(documents))

\* The loop of split_list_of_docs: a document joins the running group; when
\* the group then exceeds the budget, the group without it is closed and it
\* starts the next one, and a group of that one document alone is an error.
\* The result is the groups, or the ValueError raised.
RECURSIVE SplitFrom(_, _, _)
SplitFrom(docs, sub_result_docs, new_result_doc_list) ==
    IF docs = <<>>
    THEN [raised |-> FALSE, doc_lists |-> Append(new_result_doc_list, sub_result_docs)]
    ELSE LET grown == Append(sub_result_docs, Head(docs))
         IN  IF length_function(grown) > ChunkSize
             THEN IF Len(grown) = 1
                  THEN [raised |-> TRUE, doc_lists |-> <<>>]
                  ELSE SplitFrom(Tail(docs), <<Head(docs)>>,
                                 Append(new_result_doc_list, sub_result_docs))
             ELSE SplitFrom(Tail(docs), grown, new_result_doc_list)

split_list_of_docs(docs) == SplitFrom(docs, <<>>, <<>>)

\* The page contents of the documents, in the order of the list.
PageContents(documents) == [i \in 1..Len(documents) |-> documents[i].page_content]

\* What a text written from the documents was written from.
RECURSIVE Joined(_)
Joined(page_contents) ==
    IF page_contents = <<>> THEN <<>>
    ELSE Head(page_contents) \o Joined(Tail(page_contents))

\* should_collapse: the edge out of collect_summaries and collapse_summaries.
should_collapse(collapsed_summaries) ==
    IF length_function(collapsed_summaries) > ChunkSize
    THEN "collapse_summaries"
    ELSE "generate_final_summary"

\* The super-step counter after one more step.
StepNotCounted(steps) == steps

AfterStep(steps) == steps + 1

\* A node raises: the run ends with the exception.
RaiseFrom(kind) ==
    /\ sum_node' = "error"
    /\ sum_error' = kind
    /\ sum_steps' = AfterStep(sum_steps)

\* map_summaries sends one generate_summary task per unit; each asks the map
\* oracle for a summary, and "summaries" collects them in the order of the
\* tasks.
generate_summary ==
    /\ sum_node = "generate_summary"
    /\ sum_steps < RecursionLimit
    /\ \/ /\ RaiseFrom("oracle")
          /\ UNCHANGED sum_summaries
       \/ \E tokens \in [1..Len(sum_contents) -> TokenCounts] :
             /\ sum_summaries' =
                    [i \in 1..Len(sum_contents) |->
                        Document(<<sum_contents[i]>>, tokens[i])]
             /\ sum_node' = "collect_summaries"
             /\ sum_steps' = AfterStep(sum_steps)
             /\ UNCHANGED sum_error
    /\ UNCHANGED <<sum_contents, sum_collapsed_summaries, sum_docs_text,
                   sum_final_summary, besidesSummary>>

\* collect_summaries: every summary becomes a document.
collect_summaries ==
    /\ sum_node = "collect_summaries"
    /\ sum_steps < RecursionLimit
    /\ sum_collapsed_summaries' = sum_summaries
    /\ sum_node' = should_collapse(sum_collapsed_summaries')
    /\ sum_steps' = AfterStep(sum_steps)
    /\ UNCHANGED <<sum_contents, sum_summaries, sum_docs_text, sum_final_summary,
                   sum_error, besidesSummary>>

\* collapse_summaries: one round.  The documents are split into groups and
\* the reduce oracle writes one document from each group.
collapse_summaries ==
    /\ sum_node = "collapse_summaries"
    /\ sum_steps < RecursionLimit
    /\ LET split == split_list_of_docs(sum_collapsed_summaries)
           doc_lists == split.doc_lists
       IN  \/ /\ split.raised
              /\ RaiseFrom("ValueError")
              /\ UNCHANGED sum_collapsed_summaries
           \/ /\ ~split.raised
              /\ RaiseFrom("oracle")
              /\ UNCHANGED sum_collapsed_summaries
           \/ /\ ~split.raised
              /\ \E tokens \in [1..Len(doc_lists) -> TokenCounts] :
                    sum_collapsed_summaries' =
                        [g \in 1..Len(doc_lists) |->
                            Document(Joined(PageContents(doc_lists[g])), tokens[g])]
              /\ sum_node' = should_collapse(sum_collapsed_summaries')
              /\ sum_steps' = AfterStep(sum_steps)
              /\ UNCHANGED sum_error
    /\ UNCHANGED <<sum_contents, sum_summaries, sum_docs_text, sum_final_summary,
                   besidesSummary>>

\* generate_final_summary: the page contents are joined in the order of the
\* list and the reduce oracle writes the final summary from the joined text.
generate_final_summary ==
    /\ sum_node = "generate_final_summary"
    /\ sum_steps < RecursionLimit
    /\ sum_docs_text' = PageContents(sum_collapsed_summaries)
    /\ \/ /\ RaiseFrom("oracle")
          /\ UNCHANGED sum_final_summary
       \/ /\ sum_final_summary' = Joined(sum_docs_text')
          /\ sum_node' = "END"
          /\ sum_steps' = AfterStep(sum_steps)
          /\ UNCHANGED sum_error
    /\ UNCHANGED <<sum_contents, sum_summaries, sum_collapsed_summaries,
                   besidesSummary>>

\* The run has used its super-steps and a node is still due.
GraphRecursionError ==
    /\ sum_node \in {"generate_summary", "collect_summaries", "collapse_summaries",
                     "generate_final_summary"}
    /\ sum_steps >= RecursionLimit
    /\ sum_node' = "error"
    /\ sum_error' = "GraphRecursionError"
    /\ UNCHANGED <<sum_contents, sum_summaries, sum_collapsed_summaries,
                   sum_docs_text, sum_final_summary, sum_steps, besidesSummary>>

NextSummary ==
    \/ generate_summary
    \/ collect_summaries
    \/ collapse_summaries
    \/ generate_final_summary
    \/ GraphRecursionError

SpecSummary == InitSummary /\ [][NextSummary]_vars

\* The event loop keeps running the graph: a node that is due runs.
FairSpecSummary == SpecSummary /\ WF_vars(NextSummary)

\* ------------------------------------------------ get_next_conversation_stage
\* The staged scenario manager (domains/recruitment/new_scenario_manager.py):
\* the two scenario tables as loaded, and a caller that asks for the first
\* stage of a scenario, walks the flow from there, and asks for the stage
\* after any stage name.

\* The flows: conversation_flow is a dict, so its keys are distinct; the order
\* of the keys is the order of declaration.
Flows ==
    {flow \in UNION {[1..n -> StageNames] : n \in 0..Cardinality(StageNames)} :
        \A i, j \in 1..Len(flow) : flow[i] = flow[j] => i = j}

\* The tables: no two scenarios share an id (add_scenario refuses a second one).
InitStage ==
    /\ HandlerIdle
    /\ AgentIdle
    /\ SelectIdle
    /\ ConcIdle
    /\ IdsIdle
    /\ SummaryIdle
    /\ StartIdle
    /\ FlowIdle
    /\ stage_scenarios = <<TraditionalScenario("t1")>>
    /\ \E first, second \in Flows :
          stage_new_scenarios \in {<<>>,
                                   <<StagedScenario("s1", first)>>,
                                   <<StagedScenario("s1", first), StagedScenario("s2", second)>>,
                                   <<StagedScenario("s2", second), StagedScenario("s1", first)>>}
    /\ stage_scenario_id \in {"t1", "s1", "s2", "missing"}
    /\ stage_current_stage = <<>>
    /\ stage_result = <<>>
    /\ stage_visited = <<>>
    /\ stage_phase = "start"

\* new_scenario_manager.get_scenario_by_id: the first scenario with the id,
\* the traditional table first; None (the empty option) when there is none.
FirstWithId(table, id) ==
    LET hits == {i \in 1..Len(table) : table[i].id = id}
    IN  IF hits = {} THEN <<>>
        ELSE <<table[CHOOSE i \in hits : \A j \in hits : i <= j]>>

staged_get_scenario_by_id(id) ==
    IF FirstWithId(stage_scenarios, id) # <<>>
    THEN FirstWithId(stage_scenarios, id)
    ELSE FirstWithId(stage_new_scenarios, id)

\* is_new_format_scenario: the three fields of the staged format are present.
is_new_format_scenario(scenario) ==
    {"context", "customer_profile", "conversation_flow"} \subseteq scenario.fields

\* The question-like dict built for a stage.
StageQuestion(stage) ==
    [id |-> <<"stage_", stage>>,
     stage |-> stage,
     question |-> <<"Handle the ", stage, " stage of the conversation">>]

\* stages.index(current_stage): the position of the first occurrence.
StageIndex(stages, stage) ==
    CHOOSE i \in 1..Len(stages) :
        /\ stages[i] = stage
        /\ \A j \in 1..(i - 1) : stages[j] # stage

\* The position after current_index.
IndexAfterNext(current_index) == current_index + 2

IndexAfter(current_index) == current_index + 1

\* get_next_conversation_stage; current_stage and the result are options
\* (<<>> for None).
get_next_conversation_stage(id, current_stage) ==
    LET found == staged_get_scenario_by_id(id)
    IN  IF found = <<>> THEN <<>>
        ELSE IF ~is_new_format_scenario(found[1]) THEN <<>>
        ELSE LET stages == found[1].conversation_flow
             IN  IF stages = <<>> THEN <<>>
                 ELSE IF current_stage = <<>> THEN <<StageQuestion(stages[1])>>
                 ELSE IF current_stage[1] \notin Range(stages) THEN <<>>
                 ELSE LET current_index == StageIndex(stages, current_stage[1])
                      IN  IF IndexAfter(current_index) <= Len(stages)
                          THEN <<StageQuestion(stages[IndexAfter(current_index)])>>
                          ELSE <<>>

\* The walk starts: get_next_conversation_stage(scenario_id).  The caller
\* records the stage it is given.
FirstStage ==
    /\ stage_phase = "start"
    /\ stage_current_stage' = <<>>
    /\ stage_result' = get_next_conversation_stage(stage_scenario_id, <<>>)
    /\ stage_visited' = IF stage_result' = <<>> THEN stage_visited
                        ELSE Append(stage_visited, stage_result'[1].stage)
    /\ stage_phase' = IF stage_result' = <<>> THEN "done" ELSE "walking"
    /\ UNCHANGED <<stage_scenarios, stage_new_scenarios, stage_scenario_id, besidesStage>>

\* The walk goes on from the stage it was given last.
NextStage ==
    /\ stage_phase = "walking"
    /\ Len(stage_visited) <= Cardinality(StageNames)
    /\ stage_current_stage' = <<stage_visited[Len(stage_visited)]>>
    /\ stage_result' = get_next_conversation_stage(stage_scenario_id, stage_current_stage')
    /\ stage_visited' = IF stage_result' = <<>> THEN stage_visited
                        ELSE Append(stage_visited, stage_result'[1].stage)
    /\ stage_phase' = IF stage_result' = <<>> THEN "done" ELSE "walking"
    /\ UNCHANGED <<stage_scenarios, stage_new_scenarios, stage_scenario_id, besidesStage>>

\* A call with any stage name, of the flow or not, beside the walk.
StageAfterName ==
    /\ \E name \in StageNames \cup {"unheard_of"} :
          /\ stage_current_stage' = <<name>>
          /\ stage_result' = get_next_conversation_stage(stage_scenario_id, <<name>>)
    /\ UNCHANGED <<stage_scenarios, stage_new_scenarios, stage_scenario_id, stage_visited,
                   stage_phase, besidesStage>>

NextStageCalls == FirstStage \/ NextStage \/ StageAfterName

SpecStage == InitStage /\ [][NextStageCalls]_vars

\* ---------------------------------------------------------------- typing
TypeOK ==
    /\ status \in {"none", "started", "completed", "error"}
    /\ scenario_id \in ScenarioIds \cup {NotLoaded}
    /\ pc \in {"idle", "conversation", "store_response", "update_status",
               "run_interview", "generate_report", "store_evaluation",
               "store_report", "export", "handle_error"}
    /\ submits \in 0..MaxSubmits
    /\ Len(responsesTbl) <= submits
    /\ Len(report) <= 1

\* ---------------------------------------------------------------- properties
\* The question ids that have a turn record.
AnsweredIds == Range(QuestionIds(responsesTbl))

\* Every question of the session's scenario has a turn record.
AllAnswered == status # "none" /\ Range(questions) \subseteq AnsweredIds

\* complete_interview is running.
Completing == pc \in {"update_status", "run_interview", "generate_report",
                      "store_evaluation", "store_report", "export",
                      "handle_error"}

\* C1: a submit on which the clarification oracle asks for a clarification
\* creates no turn record: the stored responses of the session are the same
\* before and after the store step of that submit.
C1_ClarificationStoresNoTurn ==
    [][(pc = "store_response" /\ session.awaiting_clarification)
          => responsesTbl' = responsesTbl]_vars

\* C2: after a result with awaiting_clarification for question Q, the next
\* submit of the session works on Q: the current question of the call in
\* flight is the current_question of the result returned before it.
C2_StaysOnQuestion ==
    (pc # "idle" /\ result.awaiting_clarification)
        => current_question = result.current_question

\* C3: completion (run_interview followed by report generation) runs at most
\* once for the session and at most one report row is stored.
C3_CompletionOnce ==
    completionRuns <= 1 /\ Len(reportsTbl) <= 1

\* C4: the stored status changes only from started to completed or to error
\* (after the row is created as started), and a status of completed or error
\* never changes again.
C4_StatusMonotonic ==
    [][status' # status =>
          \/ status = "none" /\ status' = "started"
          \/ status = "started" /\ status' \in {"completed", "error"}]_vars

\* C5: in every state, also between the storage writes of completion, a
\* session whose status is completed has a stored report row.
C5_CompletedHasReport ==
    status = "completed" => Len(reportsTbl) >= 1

\* C6: completion is triggered only when every question of the scenario has
\* a turn record, and a submit after which every question has a turn record
\* returns the completion result, not a session_info asking for more.
C6_CompletedIffAllAnswered ==
    /\ Completing => AllAnswered
    /\ (pc = "idle" /\ result.kind = "info") => ~AllAnswered

\* C7: the number of turn records of the session equals the number of
\* distinct question ids among them: no question id has two turn records.
C7_OneTurnPerQuestion ==
    Cardinality(AnsweredIds) = Len(responsesTbl)

\* C7 witness: two turn records are stored, one of them by a submit that was
\* answered with a clarification request.
C7_Witness ==
    pc = "idle" /\ Len(responsesTbl) >= 2 /\ clarifications >= 1

\* C8: after a submit that is analysed and does not complete the interview,
\* the question returned as current_question has no turn record yet; it is
\* never the question just answered.
C8_NextQuestionUnanswered ==
    (pc = "idle" /\ result.kind = "info" /\ submits > 0
        /\ ~result.awaiting_clarification)
        => result.current_question \notin AnsweredIds

\* C9: if every call of the response-analysis oracle has failed and nothing
\* else has, then once the caller has submitted a response for every question
\* (and one more for every clarification request) the session is completed,
\* not error, and its report has every question id of the scenario with all
\* seven scores equal to 5.
C9_AnalysisFallbackCompletes ==
    (/\ pc = "idle"
     /\ status # "none"
     /\ ~analysisSucceeded
     /\ ~otherFaults
     /\ submits >= Len(questions) + clarifications)
        => /\ status = "completed"
           /\ reportsTbl # <<>>
           /\ LET analysis == reportsTbl[Len(reportsTbl)].detailed_evaluations
              IN  \A q \in Range(questions) :
                     /\ q \in DOMAIN analysis
                     /\ \A a \in (AnalysisAxes \cup {"grammar", "vocabulary"}) : analysis[q][a] = FallbackScore

\* C10: while no storage call and no report oracle fails, no result carries
\* an error, and a caller that has issued n submits plus one for every
\* clarification request has received the completed result, at a submit
\* numbered at most n + (number of clarification requests).
C10_CompletesWithinSubmits ==
    (faults = 0 /\ status # "none")
        => /\ result.kind # "error"
           /\ (pc = "idle" /\ submits >= Len(questions) + clarifications)
                 => /\ completedAt >= 1
                    /\ completedAt <= Len(questions) + clarifications

\* C10 witness: the longest scenario is completed, without a fault, by the
\* submit that follows a clarification request.
C10_Witness ==
    /\ pc = "idle"
    /\ faults = 0
    /\ Len(questions) = MaxQuestions
    /\ clarifications >= 1
    /\ result.kind = "completed"
    /\ completedAt = submits

\* C11: when a scenario with n questions is completed by n submits, with no
\* clarification requested and no oracle or storage call failing, the report
\* returned is the report stored, its detailed_evaluations have exactly the n
\* question ids of the scenario, and each submit's text is the response that
\* was evaluated for the question the caller had been shown as current.
C11_ReportPairsResponses ==
    (/\ pc = "idle"
     /\ result.kind = "completed"
     /\ clarifications = 0
     /\ faults = 0
     /\ ~engineOracleRaised
     /\ submits = Len(questions)
     /\ Len(submitted) = submits)
    => LET rep == result.report[1]
       IN  /\ reportsTbl # <<>>
           /\ reportsTbl[Len(reportsTbl)] = rep
           /\ DOMAIN rep.detailed_evaluations = Range(questions)
           /\ DOMAIN evaluatedResponses = Range(questions)
           /\ \A i \in 1..Len(submitted) :
                 /\ submitted[i].question_id \in DOMAIN evaluatedResponses
                 /\ evaluatedResponses[submitted[i].question_id]
                       = submitted[i].response_text

\* C12: when a submit returns the completion result, the text of every submit
\* of the session that returned without an error, this one included, is among
\* the responses that were handed to report generation.
C12_NoResponseLost ==
    (pc = "idle" /\ result.kind = "completed")
    => \A i \in 1..Len(submitted) :
          \E q \in DOMAIN evaluatedResponses :
             evaluatedResponses[q] = submitted[i].response_text

\* C18: whenever a call returns an error result for a session whose row
\* exists, the stored status of the session is error.
C18_ErrorMarksSession ==
    (pc = "idle" /\ result.kind = "error" /\ status # "none")
    => status = "error"

\* C19: when the overall-evaluation oracle fails during completion, nothing
\* is written to storage by the failing step, and the except block that
\* follows (its own status update not failing) stores no report row, leaves
\* the stored status error and returns an error result.
C19_OverallFailureIsFatal ==
    [][/\ (pc = "generate_report" /\ exception' = "evaluate_interview")
          => (pc' = "handle_error" /\ UNCHANGED tables)
       /\ (pc = "handle_error" /\ exception = "evaluate_interview"
             /\ faults' = faults)
          => (/\ pc' = "idle"
              /\ result'.kind = "error"
              /\ status' = "error"
              /\ reportsTbl' = reportsTbl)]_vars

\* C19 witness: a submit has returned the error of a failed overall
\* evaluation; the session is in status error and has no report row.
C19_Witness ==
    /\ pc = "idle"
    /\ result.kind = "error"
    /\ result.error = FailedToComplete("evaluate_interview")
    /\ status = "error"
    /\ reportsTbl = <<>>

\* An engine call of the graph is about to run on the candidate response.
EngineCall == agent_node = "process_response" /\ Truthy(agent_candidate_response)

sel_available == NotAsked(Questions(sel_scenario), Range(sel_questions_asked))

\* The question whose identifier is the text t, UnlistedId if there is none.
IdNamed(t) ==
    IF \E k \in 1..sel_scenario : t = <<IdText(k)>>
    THEN CHOOSE k \in 1..sel_scenario : t = <<IdText(k)>>
    ELSE UnlistedId

\* The positions of a text that belong to no occurrence of "ID: ".
OutsideLabels(text) ==
    {j \in 1..Len(text) :
        /\ ~(text[j] = "ID:" /\ j < Len(text) /\ text[j + 1] = " ")
        /\ ~(text[j] = " " /\ j > 1 /\ text[j - 1] = "ID:")}

\* The text without its occurrences of "ID: ".
WithoutLabels(text) ==
    LET kept == OutsideLabels(text)
    IN  [i \in 1..Cardinality(kept) |->
           text[CHOOSE j \in kept : Cardinality({k \in kept : k <= j}) = i]]

\* C15 as stated: when more than one question is still unasked and the
\* oracle returns a text, select_next_question returns the available question
\* whose identifier the text is after a leading "ID: " and everything from
\* the first comma on are removed (and blanks trimmed), and the first
\* available question when that is the identifier of no available question.
C15_SelectionByLeadingLabel ==
    (sel_done /\ ~sel_raised /\ Len(sel_available) > 1)
    => LET named == IdNamed(strip(before_comma(
                       replace_leading_id_label(strip(sel_text)))))
       IN  sel_result = IF named \in Range(sel_available)
                        THEN named ELSE sel_available[1]

\* C15 amended: the same with every occurrence of "ID: " removed from the
\* trimmed text, not only a leading one.
C15_SelectionByEveryLabel ==
    (sel_done /\ ~sel_raised /\ Len(sel_available) > 1)
    => LET named == IdNamed(strip(before_comma(WithoutLabels(strip(sel_text)))))
       IN  sel_result = IF named \in Range(sel_available)
                        THEN named ELSE sel_available[1]

\* C15 witness: with two or more questions unasked, the oracle's text has an
\* "ID: " that is not at its start, and the question it names, which is not
\* the first available one, is returned.
C15_Witness ==
    /\ sel_done
    /\ ~sel_raised
    /\ Len(sel_available) > 1
    /\ \E j \in 2..(Len(sel_text) - 1) : sel_text[j] = "ID:" /\ sel_text[j + 1] = " "
    /\ sel_result \in Range(sel_available)
    /\ sel_result # sel_available[1]
    /\ sel_text[1] = IdText(sel_result)

\* The last message of the session the graph holds.
agent_last_message ==
    agent_session.conversation_history[Len(agent_session.conversation_history)]

C20_ToolFailuresNotFatal ==
    [][agent_node = "run_evaluation_tools" =>
         /\ ~Truthy(agent_state'.error)
         /\ agent_node' = "generate_final_report"
         /\ agent_tools'.sum = Raised
              => agent_state'.final_summary = "Error generating summary."
         /\ agent_tools'.gram = Raised
              => agent_state'.grammar_evaluation = "Error performing grammar check."
         /\ agent_tools'.val = Raised
              => agent_state'.validation_result = "Error performing validation."
      ]_vars

\* C20 witness: all three tools raised and the final report was generated.
C20_Witness ==
    /\ agent_tools = ToolResults(Raised, Raised, Raised)
    /\ agent_node = "END"
    /\ agent_state.final_report = "final report"
    /\ agent_state.final_summary = "Error generating summary."
    /\ ~Truthy(agent_state.error)

\* The call just issued names a scenario that is not loaded, or a session
\* that is not stored.
UnknownIdCall ==
    \/ /\ call'.op = "start_interview_session"
       /\ get_scenario_by_id(call'.scenario_id) = NotLoaded
    \/ /\ call'.op = "process_response"
       /\ ~call'.stored

\* C21: start_interview_session with a scenario id that is not loaded, and
\* process_response with a session id that is not stored, return to the
\* caller a result with an error field, and no row of the sessions,
\* responses, evaluations or reports table is created or modified.
C21_UnknownIdsChangeNothing ==
    [][(pc = "idle" /\ UnknownIdCall)
          => (/\ pc' = "idle"
              /\ result'.kind = "error"
              /\ UNCHANGED tables)]_vars

\* C21 witness: a submit on a session id that is not stored has returned the
\* error and no session row exists.
C21_Witness ==
    /\ pc = "idle"
    /\ call = Call("process_response", NotLoaded, FALSE)
    /\ result = ErrorResult("Session not found")
    /\ status = "none"

\* The responses in a conversation history.
HumanMessages(history) == SelectSeq(history, LAMBDA m : m.role = "user")

\* C22: an empty response text handed to the master-agent graph is processed
\* like any other: once the graph holds no pending response, every response
\* handed to it is in the conversation history.
C22_EmptyResponseProcessed ==
    (agent_node # "none" /\ agent_candidate_response = NoneValue)
    => Len(HumanMessages(agent_session.conversation_history)) = agent_provided

\* The coroutines that run a call.
Running == {t \in TaskIds : tasks[t].pc # "idle"}

\* The coroutines that wait for a permit.
Waiting == {t \in TaskIds : tasks[t].pc \in {"acquire_interview", "acquire_start", "acquire_submit"}}

\* The coroutines inside the guarded block of start_interview_session or of
\* process_response.
InGuardedCall == {t \in TaskIds : tasks[t].pc \in {"start", "submit", "engine", "complete"}}

\* The coroutines that await an oracle on behalf of a session: the turn
\* engine, or run_interview and the report generation of completion.
AwaitingOracle == {t \in TaskIds : tasks[t].pc \in {"engine", "complete"}}

RECURSIVE HeldBy(_)
\* The permits held by a set of coroutines.
HeldBy(ts) ==
    IF ts = {} THEN 0
    ELSE LET t == CHOOSE u \in ts : TRUE
         IN  tasks[t].held + HeldBy(ts \ {t})

\* C23: no state is reachable in which calls are in flight, every one of
\* them waits for a permit of the admission semaphore and none is free.
C23_NoDeadlock ==
    ~(/\ Running # {}
      /\ Running = Waiting
      /\ interview_semaphore = 0)

\* The sessions stored.
SessionIds == 1..Len(sessions)

\* Two coroutines run complete_interview for the session at the same time.
CompletedTwiceAtOnce(s) ==
    \E t, u \in TaskIds :
        /\ t # u
        /\ tasks[t].pc = "complete" /\ tasks[t].session_id = s
        /\ tasks[u].pc = "complete" /\ tasks[u].session_id = s

\* C24: submits on one session take effect one after the other: no session
\* has two turn records under the same question id, and no two calls run
\* the completion of one session at the same time.
C24_SubmitsSerialized ==
    \A s \in SessionIds :
        /\ Cardinality(Range(QuestionIds(sessions[s].responses)))
              = Len(sessions[s].responses)
        /\ ~CompletedTwiceAtOnce(s)

\* C25: the calls inside the guarded block of start_interview_session or
\* process_response, and so the oracle calls awaited on behalf of sessions,
\* are never more than CONCURRENCY_LIMIT; every permit taken is held by a
\* running call, so that a call that has returned, with or without an
\* error, holds none.
C25_AdmissionBounded ==
    /\ Cardinality(InGuardedCall) <= CONCURRENCY_LIMIT
    /\ Cardinality(AwaitingOracle) <= CONCURRENCY_LIMIT
    /\ interview_semaphore >= 0
    /\ interview_semaphore + HeldBy(Running) = CONCURRENCY_LIMIT
    /\ \A t \in TaskIds : tasks[t].pc = "idle" => tasks[t].held = 0

\* C25 witness: the limit is 2, two calls of process_response await the
\* turn engine at the same time and no permit is left.
C25_Witness ==
    /\ CONCURRENCY_LIMIT = 2
    /\ interview_semaphore = 0
    /\ \A t \in TaskIds : tasks[t].pc = "engine"

\* C26: any two sessions that were started, by storage.create_session or by
\* the staged master agent's initialize_conversation, at any times, have
\* distinct session ids.
C26_SessionIdsDistinct ==
    \A i, j \in 1..Len(session_ids) : session_ids[i] = session_ids[j] => i = j

\* C27: every summarization run ends, with a final summary or with an
\* exception; a run whose collapse rounds never get the documents under the
\* budget is ended by the recursion limit.
C27_SummarizationEnds ==
    <>(\/ sum_node = "END" /\ sum_final_summary # <<>>
       \/ sum_node = "error" /\ sum_error # "")

\* C27 happens: the collapse rounds went on until the limit ended the run.
C27_Witness ==
    /\ sum_node = "error"
    /\ sum_error = "GraphRecursionError"
    /\ sum_steps = RecursionLimit
    /\ Len(sum_collapsed_summaries) > 1

\* C28: a collapse round that starts with more than one document ends with
\* strictly fewer documents.
C28_RoundStrictlyReduces ==
    [][(/\ sum_node = "collapse_summaries"
        /\ Len(sum_collapsed_summaries) > 1
        /\ sum_node' # "error")
          => Len(sum_collapsed_summaries') < Len(sum_collapsed_summaries)]_vars

\* The documents generate_final_summary joins in a run on the contents that
\* takes no collapse round.
DocsTextWithoutCollapse(contents_) == [i \in 1..Len(contents_) |-> <<contents_[i]>>]

\* The contents in the order the permutation gives.
Permuted(contents_, p) == [i \in 1..Len(contents_) |-> contents_[p[i]]]

\* C29: the input of the final reduce and the final summary are the same for
\* every order of the transcript units (here: in the runs without a collapse
\* round, where the order of the units decides no token count).
C29_OrderIrrelevant ==
    (sum_node = "END" /\ sum_steps = 3)
        => \A p \in Permutations(1..Len(sum_contents)) :
              /\ DocsTextWithoutCollapse(Permuted(sum_contents, p)) = sum_docs_text
              /\ Joined(DocsTextWithoutCollapse(Permuted(sum_contents, p)))
                    = sum_final_summary

\* The flow of the scenario the caller asks for, when that scenario is staged.
StagedFlows ==
    {stage_new_scenarios[i].conversation_flow :
        i \in {k \in 1..Len(stage_new_scenarios) :
                  stage_new_scenarios[k].id = stage_scenario_id}}

\* C30: for a staged scenario the call without a current stage returns the
\* first declared stage, the walk from there is given every stage of the flow
\* once and in declared order and then None, and a call with a stage name that
\* is not in the flow returns None.
C30_StagesInDeclaredOrder ==
    \A flow \in StagedFlows :
        /\ stage_phase \in {"walking", "done"} =>
              /\ Len(stage_visited) <= Len(flow)
              /\ stage_visited = SubSeq(flow, 1, Len(stage_visited))
        /\ (stage_phase = "walking" /\ flow # <<>>) => stage_visited[1] = flow[1]
        /\ stage_phase = "done" => stage_visited = flow
        /\ (stage_current_stage # <<>> /\ stage_current_stage[1] \notin Range(flow))
              => stage_result = <<>>
        /\ (stage_current_stage # <<>> /\ stage_result # <<>>) =>
              \E i \in 1..(Len(flow) - 1) :
                  /\ flow[i] = stage_current_stage[1]
                  /\ stage_result[1] = StageQuestion(flow[i + 1])

\* C30 happens: the walk of the second staged scenario of the table went
\* through a flow of three stages and was given None after the last.
C30_Witness ==
    /\ stage_scenario_id = "s1"
    /\ Len(stage_new_scenarios) = 2
    /\ stage_new_scenarios[2].id = "s1"
    /\ Len(stage_new_scenarios[2].conversation_flow) = 3
    /\ stage_phase = "done"
    /\ stage_current_stage = <<stage_new_scenarios[2].conversation_flow[3]>>
    /\ stage_result = <<>>
    /\ Len(stage_visited) = 3

\* ------------------------------------- start_interview_session on a table
\* A scenario table as load_scenarios reads it from the file: it keeps every
\* scenario of the file, whatever its questions.
InitStart ==
    /\ HandlerIdle
    /\ AgentIdle
    /\ SelectIdle
    /\ ConcIdle
    /\ IdsIdle
    /\ SummaryIdle
    /\ StageIdle
    /\ FlowIdle
    /\ start_scenarios \in UNION {[1..n -> [id : ScenarioIds, questions : 0..MaxQuestions]] :
                                     n \in 1..MaxQuestions}
    /\ start_sessions = {}
    /\ start_handed = {}
    /\ start_result = <<>>

\* scenario_manager.get_scenario_by_id on the loaded table: the first
\* scenario with the id, << >> (None) when there is none.
loaded_get_scenario_by_id(id) ==
    LET found == {i \in DOMAIN start_scenarios : start_scenarios[i].id = id}
    IN  IF found = {} THEN <<>>
        ELSE <<start_scenarios[CHOOSE i \in found : \A j \in found : i <= j]>>

\* handler.start_interview_session: the scenario is looked up by the id
\* given (NotLoaded: no id, random.choice over the table); the session row
\* is created; conversation.start_interview looks the scenario up again and
\* raises on a scenario with no question; every exception is caught and
\* returned as an error.
start_interview_session ==
    /\ UNCHANGED <<start_scenarios, besidesStart>>
    /\ \E requested \in ScenarioIds \cup {NotLoaded, MaxQuestions + 1},
          chosen \in DOMAIN start_scenarios :
           LET scenario == IF requested = NotLoaded
                           THEN <<start_scenarios[chosen]>>
                           ELSE loaded_get_scenario_by_id(requested)
               engine   == loaded_get_scenario_by_id(scenario[1].id)
           IN  IF scenario = <<>>
               THEN /\ start_result' = <<[kind |-> "error", raised |-> FALSE]>>
                    /\ UNCHANGED <<start_sessions, start_handed>>
               ELSE /\ start_sessions' = start_sessions \cup {scenario[1]}
                    /\ start_handed' = start_handed \cup {engine[1]}
                    /\ start_result' = <<[kind   |-> IF engine[1].questions = 0
                                                     THEN "error" ELSE "info",
                                          raised |-> FALSE]>>

SpecStart == InitStart /\ [][start_interview_session]_vars

\* C31: no session is created for a scenario with no question, none is
\* handed to the engine, and no start fails with an exception.
C31_MalformedNeverStarted ==
    /\ \A scenario \in start_sessions \cup start_handed : scenario.questions > 0
    /\ \A r \in Range(start_result) : ~r.raised

\* ------------------------------------------------ the staged master-agent graph
\* One run of the graph of new_master_agent.create_master_agent_graph, as
\* run_conversation means to drive it, on the tables of the staged scenario
\* manager.  The agent oracle, the evaluation tools and the report oracle
\* can raise.
InitFlow ==
    /\ HandlerIdle
    /\ AgentIdle
    /\ SelectIdle
    /\ ConcIdle
    /\ IdsIdle
    /\ SummaryIdle
    /\ StartIdle
    /\ FlowIdle
    /\ stage_scenarios = <<TraditionalScenario("t1")>>
    /\ \E first, second \in Flows :
          stage_new_scenarios \in {<<>>,
                                   <<StagedScenario("s1", first)>>,
                                   <<StagedScenario("s1", first), StagedScenario("s2", second)>>}
    /\ stage_scenario_id = ""
    /\ stage_current_stage = <<>>
    /\ stage_result = <<>>
    /\ stage_visited = <<>>
    /\ stage_phase = "none"

\* f"question_{n}".
QuestionStage(n) ==
    <<"question_1", "question_2", "question_3", "question_4", "question_5",
      "question_6", "question_7", "question_8">>[n]

\* Node initialize_conversation: a staged scenario is drawn when there is
\* one, any scenario otherwise; a staged scenario starts at the first stage
\* of its flow, and one with no stage raises; a traditional scenario starts
\* at "question_1", and one with no question raises.  What is raised is
\* recorded in error.  The edge leads to process_response.
flow_initialize_conversation ==
    /\ flow_node = "initialize_conversation"
    /\ \E scenario \in Range(IF stage_new_scenarios # <<>> THEN stage_new_scenarios
                             ELSE stage_scenarios),
          nq \in 0..MaxQuestions :
         LET first_stage_data == get_next_conversation_stage(scenario.id, <<>>)
         IN  flow_state' =
               IF is_new_format_scenario(scenario)
               THEN IF first_stage_data = <<>>
                    THEN [flow_state EXCEPT !.error = <<"Failed to initialize conversation">>]
                    ELSE [flow_state EXCEPT
                            !.is_new_format = TRUE,
                            !.scenario_id = scenario.id,
                            !.current_stage = first_stage_data[1].stage,
                            !.conversation_history = <<"system", "ai">>]
               ELSE IF nq = 0
                    THEN [flow_state EXCEPT !.error = <<"Failed to initialize conversation">>]
                    ELSE [flow_state EXCEPT
                            !.scenario_id = scenario.id,
                            !.questions = nq,
                            !.current_stage = QuestionStage(1),
                            !.conversation_history = <<"system", "ai">>]
    /\ flow_node' = "process_response"
    /\ UNCHANGED <<flow_provided, flow_consumed, flow_advances, besidesFlow>>

\* run_conversation between two steps: the next customer response is put
\* into the state when the state has none and the conversation is not
\* complete.
flow_provide_response ==
    /\ flow_node \in {"process_response", "advance_conversation"}
    /\ flow_state.customer_response = <<>>
    /\ ~flow_state.interview_complete
    /\ flow_provided < MaxSubmits
    /\ flow_state' = [flow_state EXCEPT !.customer_response = <<"a response">>]
    /\ flow_provided' = flow_provided + 1
    /\ UNCHANGED <<flow_node, flow_consumed, flow_advances, besidesFlow>>

\* Node process_response and route_after_processing: without a customer
\* response the state is returned as it is; otherwise the response is
\* appended to the history and cleared.
flow_process_response ==
    /\ flow_node = "process_response"
    /\ IF flow_state.customer_response = <<>>
       THEN UNCHANGED <<flow_state, flow_consumed>>
       ELSE /\ flow_state' = [flow_state EXCEPT
                                !.conversation_history = Append(@, "human"),
                                !.customer_response = <<>>]
            /\ flow_consumed' = flow_consumed + 1
    /\ flow_node' = IF flow_state'.interview_complete THEN "run_evaluation_tools"
                    ELSE "advance_conversation"
    /\ UNCHANGED <<flow_provided, flow_advances, besidesFlow>>

\* Node advance_conversation and route_after_advancing.  Staged scenario:
\* the current stage is added to stages_completed; when a stage follows it,
\* the agent oracle answers and that stage becomes current, otherwise the
\* conversation is complete.  Traditional scenario: the agent oracle
\* answers; the interview is complete when the history holds more than two
\* messages per question, otherwise the next "question_n" stage is entered.
\* The state is changed in place, so what was done before the oracle raised
\* stays.
flow_advance_conversation ==
    /\ flow_node = "advance_conversation"
    /\ \E answered \in BOOLEAN :
         LET st == flow_state
             completed == IF st.current_stage \in Range(st.stages_completed)
                          THEN st.stages_completed
                          ELSE Append(st.stages_completed, st.current_stage)
             next_stage_data == get_next_conversation_stage(st.scenario_id,
                                                            <<st.current_stage>>)
             history == Append(st.conversation_history, "ai")
         IN  /\ flow_state' =
                  IF st.is_new_format
                  THEN IF next_stage_data = <<>>
                       THEN [st EXCEPT !.stages_completed = completed,
                                       !.interview_complete = TRUE,
                                       !.conversation_history = history]
                       ELSE IF answered
                       THEN [st EXCEPT !.stages_completed = completed,
                                       !.conversation_history = history,
                                       !.current_stage = next_stage_data[1].stage]
                       ELSE [st EXCEPT !.stages_completed = completed,
                                       !.error = <<"Failed to advance conversation">>]
                  ELSE IF ~answered
                       THEN [st EXCEPT !.error = <<"Failed to advance conversation">>]
                       ELSE IF Len(history) > 2 * st.questions
                       THEN [st EXCEPT !.conversation_history = Append(history, "ai"),
                                       !.interview_complete = TRUE]
                       ELSE [st EXCEPT
                               !.conversation_history = history,
                               !.current_stage = QuestionStage(Len(st.stages_completed) + 1),
                               !.stages_completed =
                                   Append(@, QuestionStage(Len(st.stages_completed) + 1))]
             /\ flow_advances' =
                  IF /\ st.is_new_format
                     /\ \/ flow_state'.current_stage # st.current_stage
                        \/ flow_state'.interview_complete # st.interview_complete
                  THEN flow_advances + 1
                  ELSE flow_advances
    /\ flow_node' = IF flow_state'.interview_complete THEN "run_evaluation_tools"
                    ELSE "process_response"
    /\ UNCHANGED <<flow_provided, flow_consumed, besidesFlow>>

\* Node run_evaluation_tools and route_after_evaluation: a failure of the
\* tools is recorded in error; a state with an error is routed to "error",
\* which is no node of the graph.
flow_run_evaluation_tools ==
    /\ flow_node = "run_evaluation_tools"
    /\ \E ran \in BOOLEAN :
         flow_state' = IF ran THEN flow_state
                       ELSE [flow_state EXCEPT
                               !.error = <<"Failed to run evaluation tools">>]
    /\ flow_node' = IF flow_state'.error # <<>> THEN "error" ELSE "generate_final_report"
    /\ UNCHANGED <<flow_provided, flow_consumed, flow_advances, besidesFlow>>

\* Node generate_final_report: the report oracle's text is stored, or the
\* error is recorded; the edge leads to END.
flow_generate_final_report ==
    /\ flow_node = "generate_final_report"
    /\ \E generated \in BOOLEAN :
         flow_state' = IF generated
                       THEN [flow_state EXCEPT !.final_report = <<"final report">>]
                       ELSE [flow_state EXCEPT
                               !.error = <<"Failed to generate final report">>]
    /\ flow_node' = "END"
    /\ UNCHANGED <<flow_provided, flow_consumed, flow_advances, besidesFlow>>

NextFlow ==
    \/ flow_initialize_conversation
    \/ flow_provide_response
    \/ flow_process_response
    \/ flow_advance_conversation
    \/ flow_run_evaluation_tools
    \/ flow_generate_final_report

SpecFlow == InitFlow /\ [][NextFlow]_vars

\* C33: a response is recorded under the question the preceding call of
\* the session returned as current_question.
C33_RecordedUnderShownQuestion ==
    [][(/\ pc = "store_response"
        /\ result.kind = "info"
        /\ Len(responsesTbl') = Len(responsesTbl) + 1)
          => responsesTbl'[Len(responsesTbl')].question_id = result.current_question]_vars

\* s is the beginning of t.
IsPrefix(s, t) == Len(s) <= Len(t) /\ SubSeq(t, 1, Len(s)) = s

\* C34: the history a call returns begins with the history the preceding
\* call of the session returned, and its first message is the system message.
C34_HistoryOnlyGrows ==
    [][(/\ result.kind = "info"
        /\ result'.kind = "info"
        /\ pc # "idle"
        /\ pc' = "idle")
          => /\ IsPrefix(result.conversation_history, result'.conversation_history)
             /\ result'.conversation_history[1].role = "system"]_vars

\* C35: the session the turn engine is called on has a duplicate-free
\* questions_asked that contains the current question, and analyses only
\* under questions of questions_asked.
C35_AskedIncludesCurrent ==
    pc = "conversation" =>
        /\ Cardinality(Range(session.questions_asked)) = Len(session.questions_asked)
        /\ session.current_question \in Range(session.questions_asked)
        /\ DOMAIN session.evaluation \subseteq Range(session.questions_asked)

\* C36: a response processed while the session awaits a clarification is
\* analysed: the session does not await a clarification after it.
C36_OneClarificationPerQuestion ==
    [][(/\ agent_node = "process_response"
        /\ agent_session.awaiting_clarification
        /\ Truthy(agent_candidate_response)
        /\ agent_candidate_response' = NoneValue)
          => ~agent_session'.awaiting_clarification]_vars

\* C32: an export of the completed session writes what the export before
\* it wrote when no submit was issued in between, and changes no row of the
\* session.
C32_ExportIdempotent ==
    [][(exported' # exported /\ exported' # <<>>) =>
          /\ \A i \in DOMAIN exported' : exported'[i] = exported'[1]
          /\ UNCHANGED <<status, scenario_id, responsesTbl, evaluationsTbl, reportsTbl>>]_vars

\* C32 happens: the completed session, holding a report, was exported twice
\* with no submit in between.
C32_Witness ==
    /\ Len(exported) = 2
    /\ exported[2].report # <<>>
    /\ exported[2].session.status = "completed"

\* C37: in the staged graph the stage advances, and the completion of the
\* conversation, never outnumber the customer responses process_response
\* consumed.
C37_AdvanceAfterResponse ==
    flow_advances <= flow_consumed

DeclaredStages ==
    staged_get_scenario_by_id(flow_state.scenario_id)[1].conversation_flow

\* C39: in a staged conversation stages_completed is a prefix of the declared
\* stages, current_stage is the stage after that prefix while the
\* conversation is not complete, and the conversation is complete only with
\* the last declared stage in stages_completed.
C39_StagesInDeclaredOrder ==
    flow_state.is_new_format =>
        /\ IsPrefix(flow_state.stages_completed, DeclaredStages)
        /\ ~flow_state.interview_complete =>
              /\ Len(flow_state.stages_completed) < Len(DeclaredStages)
              /\ flow_state.current_stage
                    = DeclaredStages[Len(flow_state.stages_completed) + 1]
        /\ flow_state.interview_complete =>
              DeclaredStages[Len(DeclaredStages)] \in Range(flow_state.stages_completed)

====
